---- MODULE Spec2Model ----
(***************************************************************************)
(* Denormalized-counter reconciliation of the GlyphMart backend            *)
(* (src/Backend/app.py, database.py, migrate_counts.py).  The document     *)
(* store is modelled as its five collections; every handler is a sequence  *)
(* of steps, one per store call, run by a request worker.                  *)
(***************************************************************************)
EXTENDS Integers, Sequences, FiniteSets, TLC

VARIABLES
    glyphs,          \* collection 'glyphs': glyph id -> document
    glyphViews,      \* collection 'glyphViews': set of view documents
    likes,           \* collection 'likes': set of like documents
    glyphDownloads,  \* collection 'glyphDownloads': set of download documents
    created,         \* the glyph ids handed out by the store so far
    users,           \* collection 'users': set of profile documents
    now,             \* the clock, in seconds
    pc,              \* worker -> position inside the handler it runs
    local,           \* worker -> the handler's local variables
    log,             \* the responses kept of the calls completed so far, oldest first
    recording,       \* which responses are kept: "none", "last" or "all" (fixed at the start)
    cache,           \* DatabaseCache.cache: key -> cached value
    cache_timestamps,\* DatabaseCache.cache_timestamps: key -> time of the set
    running,         \* BackgroundSyncService.running
    thread,          \* BackgroundSyncService.thread: the Thread object created last, 0 for None
    started          \* the Thread objects whose start() has taken effect

store == <<glyphs, glyphViews, likes, glyphDownloads, created, users>>
caching == <<cache, cache_timestamps>>
service == <<running, thread, started>>
vars == <<glyphs, glyphViews, likes, glyphDownloads, created, users, now, pc, local, log, recording,
          cache, cache_timestamps, running, thread, started>>

----------------------------------------------------------------------------
(* Bounds of the model *)

NumGlyphs == 2
NumIPs == 2
NumUsers == 2
NumWorkers == 2
MaxTicks == 3
MaxCalls == 3
MaxDrift == 1
ExampleCatalog == 1200
MaxThreads == 2
MaxNow == 14400
LiveBatchSize == 1

(* Program constants *)

LazySyncAge == 3600
SweepSyncAge == 7200
chunk_size == 100
MaxBatchSize == 500
DefaultBatchSize == 100
SweepBatchSize == 100
MaxSampleUpdates == 5
MaxSampleErrors == 3

GlyphId(i) == "g" \o ToString(i)
IP(i) == "ip" \o ToString(i)
User(i) == "u" \o ToString(i)
Glyphs == {GlyphId(i) : i \in 1..NumGlyphs}
IPs == {IP(i) : i \in 1..NumIPs}
Users == {User(i) : i \in 1..NumUsers}
Workers == 1..NumWorkers

\* the threads that BackgroundSyncService.start can create
Threads == (NumWorkers + 1)..(NumWorkers + MaxThreads)

NoSync == -1
Hot == GlyphId(1)
Steps == {1, LazySyncAge}

----------------------------------------------------------------------------
(* The store *)

NoDoc ==
    [exists |-> FALSE, creatorId |-> "", title |-> "", views |-> 0, likes |-> 0,
     downloads |-> 0, lastCountSync |-> NoSync, syncType |-> ""]

NewGlyph(user_id) ==
    [exists |-> TRUE, creatorId |-> user_id, title |-> "title", views |-> 0, likes |-> 0,
     downloads |-> 0, lastCountSync |-> NoSync, syncType |-> ""]

DocId(glyph_id, actor) == glyph_id \o "_" \o actor

ViewDoc(glyph_id, user_ip) ==
    [id |-> DocId(glyph_id, user_ip), glyphId |-> glyph_id, userIP |-> user_ip]

LikeDoc(glyph_id, user_id) ==
    [id |-> DocId(glyph_id, user_id), glyphId |-> glyph_id, userId |-> user_id]

DownloadDoc(glyph_id, user_ip) ==
    [id |-> DocId(glyph_id, user_ip), glyphId |-> glyph_id, userIP |-> user_ip]

\* the profile document of a user; isAdmin is the field that is_admin reads
UserDoc(user_id, isAdmin) ==
    [id |-> user_id, email |-> user_id \o "@mail", isAdmin |-> isAdmin]

\* the profiles at the start: every user has one, the last user's with isAdmin
Profiles == {UserDoc(User(i), i = NumUsers) : i \in 1..NumUsers}

DocExists(coll, id) == \E d \in coll : d.id = id

SetDoc(coll, doc) == {d \in coll : d.id # doc.id} \cup {doc}

DeleteDoc(coll, id) == {d \in coll : d.id # id}

CountWhere(coll, glyph_id) == Cardinality({d \in coll : d.glyphId = glyph_id})

Min(a, b) == IF a < b THEN a ELSE b

Later(a, b) == IF a < b THEN b ELSE a

Take(s, n) == SubSeq(s, 1, Min(n, Len(s)))

\* stream() of the 'glyphs' collection: the existing documents in id order
StreamGlyphs ==
    SelectSeq([i \in 1..Cardinality(DOMAIN glyphs) |-> GlyphId(i)], LAMBDA g : glyphs[g].exists)

\* the grouped write that leaves the likes out
ApplyBatch_no_likes(batch, sync_type) ==
    [g \in DOMAIN glyphs |->
        IF \E u \in batch : u.glyphId = g
        THEN LET u == CHOOSE x \in batch : x.glyphId = g
             IN [glyphs[g] EXCEPT !.views = u.views, !.downloads = u.downloads,
                                  !.lastCountSync = now, !.syncType = sync_type]
        ELSE glyphs[g]]

\* the grouped write of a batch of staged counter updates, applied as one unit
ApplyBatch(batch, sync_type) ==
    [g \in DOMAIN glyphs |->
        IF \E u \in batch : u.glyphId = g
        THEN LET u == CHOOSE x \in batch : x.glyphId = g
             IN [glyphs[g] EXCEPT !.views = u.views, !.likes = u.likes,
                                  !.downloads = u.downloads,
                                  !.lastCountSync = now, !.syncType = sync_type]
        ELSE glyphs[g]]

BatchCommits(batch) == \A u \in batch : glyphs[u.glyphId].exists

----------------------------------------------------------------------------
(* Workers *)

NoLocal ==
    [g |-> "", actor |-> "", exists |-> FALSE, liked |-> FALSE,
     glyph_data |-> [views |-> 0, likes |-> 0, downloads |-> 0],
     views_count |-> 0, likes_count |-> 0, downloads_count |-> 0,
     sync_all |-> FALSE, glyph_ids |-> <<>>, k |-> 0, batch |-> {},
     synced_count |-> 0, updates |-> <<>>, errors |-> <<>>, commits |-> 0,
     batch_size |-> 0, data |-> [f \in {} |-> ""], update_data |-> [f \in {} |-> ""],
     key |-> [prefix |-> "", id |-> ""], value |-> [none |-> TRUE], cache_type |-> "",
     keys_to_delete |-> {}, cached_counts |-> <<>>, uncached_ids |-> <<>>,
     counts |-> <<>>, total_synced |-> 0, is_creator |-> FALSE, requested |-> 0,
     limit |-> 0, object |-> 0, until |-> 0]

NoResp ==
    [op |-> "", g |-> "", actor |-> "", status |-> 0, recorded |-> FALSE,
     liked |-> FALSE, totalLikes |-> 0, views |-> 0, likes |-> 0, downloads |-> 0,
     syncedCount |-> 0, totalChecked |-> 0, syncType |-> "",
     sampleUpdates |-> <<>>, errors |-> <<>>, at |-> 0,
     key |-> [prefix |-> "", id |-> ""], cache_type |-> "", value |-> [none |-> TRUE]]

\* the handler run by w ends with response r, kept with the time of the return:
\* a request worker is idle again, the sweep's loop thread is back at the test of
\* its while loop
Finish(w, r) ==
    /\ recording = "all" => Len(log) < MaxCalls
    /\ pc' = [pc EXCEPT ![w] = IF w \in Workers THEN "idle" ELSE "lp_while"]
    /\ local' = [local EXCEPT ![w] = NoLocal]
    /\ log' = CASE recording = "all" -> Append(log, [r EXCEPT !.at = now])
                 [] recording = "last" -> <<[r EXCEPT !.at = now]>>
                 [] OTHER -> log
    /\ UNCHANGED recording

\* the handler run by w goes on to its next step with locals l
Step(w, label, l) ==
    /\ pc' = [pc EXCEPT ![w] = label]
    /\ local' = [local EXCEPT ![w] = l]
    /\ UNCHANGED <<log, recording>>

\* the same for the handlers of app.py, which use neither the cache nor the
\* sweep service
Return(w, r) == Finish(w, r) /\ UNCHANGED <<caching, service>>

Goto(w, label, l) == Step(w, label, l) /\ UNCHANGED <<caching, service>>

----------------------------------------------------------------------------
(* record_view and record_download *)

RecordResp(op, glyph_id, user_ip, status, recorded) ==
    [NoResp EXCEPT !.op = op, !.g = glyph_id, !.actor = user_ip,
                   !.status = status, !.recorded = recorded]

\* record_view without the check for an earlier view
record_view_unchecked(w, glyph_id, user_ip, fails) ==
    /\ pc[w] = "idle"
    /\ UNCHANGED <<store, now>>
    /\ IF glyph_id = ""
       THEN Return(w, RecordResp("record_view", glyph_id, "", 400, FALSE))
       ELSE IF fails
       THEN Return(w, RecordResp("record_view", glyph_id, user_ip, 500, FALSE))
       ELSE Goto(w, "rv_commit", [NoLocal EXCEPT !.g = glyph_id, !.actor = user_ip])

\* the test of the request and the read of the view document; a read that
\* raises ends the call
record_view(w, glyph_id, user_ip, fails) ==
    /\ pc[w] = "idle"
    /\ UNCHANGED <<store, now>>
    /\ IF glyph_id = ""
       THEN Return(w, RecordResp("record_view", glyph_id, "", 400, FALSE))
       ELSE IF fails
       THEN Return(w, RecordResp("record_view", glyph_id, user_ip, 500, FALSE))
       ELSE IF DocExists(glyphViews, DocId(glyph_id, user_ip))
       THEN Return(w, RecordResp("record_view", glyph_id, user_ip, 200, FALSE))
       ELSE Goto(w, "rv_commit", [NoLocal EXCEPT !.g = glyph_id, !.actor = user_ip])

\* record_view that writes the view document and leaves the counter alone
record_view_commit_no_increment(w, fails) ==
    /\ pc[w] = "rv_commit"
    /\ UNCHANGED <<likes, glyphDownloads, created, users, now>>
    /\ LET glyph_id == local[w].g
           user_ip == local[w].actor
       IN   IF fails \/ ~glyphs[glyph_id].exists
            THEN /\ UNCHANGED <<glyphs, glyphViews>>
                 /\ Return(w, RecordResp("record_view", glyph_id, user_ip, 500, FALSE))
            ELSE /\ glyphViews' = SetDoc(glyphViews, ViewDoc(glyph_id, user_ip))
                 /\ UNCHANGED glyphs
                 /\ Return(w, RecordResp("record_view", glyph_id, user_ip, 200, TRUE))

record_view_commit(w, fails) ==
    /\ pc[w] = "rv_commit"
    /\ UNCHANGED <<likes, glyphDownloads, created, users, now>>
    /\ LET glyph_id == local[w].g
           user_ip == local[w].actor
       IN   IF fails \/ ~glyphs[glyph_id].exists
            THEN /\ UNCHANGED <<glyphs, glyphViews>>
                 /\ Return(w, RecordResp("record_view", glyph_id, user_ip, 500, FALSE))
            ELSE /\ glyphViews' = SetDoc(glyphViews, ViewDoc(glyph_id, user_ip))
                 /\ glyphs' = [glyphs EXCEPT ![glyph_id].views = @ + 1]
                 /\ Return(w, RecordResp("record_view", glyph_id, user_ip, 200, TRUE))

record_download(w, glyph_id, user_ip, fails) ==
    /\ pc[w] = "idle"
    /\ UNCHANGED <<store, now>>
    /\ IF glyph_id = ""
       THEN Return(w, RecordResp("record_download", glyph_id, "", 400, FALSE))
       ELSE IF fails
       THEN Return(w, RecordResp("record_download", glyph_id, user_ip, 500, FALSE))
       ELSE IF DocExists(glyphDownloads, DocId(glyph_id, user_ip))
       THEN Return(w, RecordResp("record_download", glyph_id, user_ip, 200, FALSE))
       ELSE Goto(w, "rd_commit", [NoLocal EXCEPT !.g = glyph_id, !.actor = user_ip])

\* a commit that is not all-or-nothing: the download document is written even
\* when the update of the glyph fails
record_download_commit_partial(w, fails) ==
    /\ pc[w] = "rd_commit"
    /\ UNCHANGED <<likes, glyphViews, created, users, now>>
    /\ LET glyph_id == local[w].g
           user_ip == local[w].actor
       IN   IF fails \/ ~glyphs[glyph_id].exists
            THEN /\ glyphDownloads' = SetDoc(glyphDownloads, DownloadDoc(glyph_id, user_ip))
                 /\ UNCHANGED glyphs
                 /\ Return(w, RecordResp("record_download", glyph_id, user_ip, 500, FALSE))
            ELSE /\ glyphDownloads' = SetDoc(glyphDownloads, DownloadDoc(glyph_id, user_ip))
                 /\ glyphs' = [glyphs EXCEPT ![glyph_id].downloads = @ + 1]
                 /\ Return(w, RecordResp("record_download", glyph_id, user_ip, 200, TRUE))

record_download_commit(w, fails) ==
    /\ pc[w] = "rd_commit"
    /\ UNCHANGED <<likes, glyphViews, created, users, now>>
    /\ LET glyph_id == local[w].g
           user_ip == local[w].actor
       IN   IF fails \/ ~glyphs[glyph_id].exists
            THEN /\ UNCHANGED <<glyphs, glyphDownloads>>
                 /\ Return(w, RecordResp("record_download", glyph_id, user_ip, 500, FALSE))
            ELSE /\ glyphDownloads' = SetDoc(glyphDownloads, DownloadDoc(glyph_id, user_ip))
                 /\ glyphs' = [glyphs EXCEPT ![glyph_id].downloads = @ + 1]
                 /\ Return(w, RecordResp("record_download", glyph_id, user_ip, 200, TRUE))

----------------------------------------------------------------------------
(* toggle_like *)

LikeResp(glyph_id, user_id, status, liked, total_likes) ==
    [NoResp EXCEPT !.op = "toggle_like", !.g = glyph_id, !.actor = user_id,
                   !.status = status, !.liked = liked, !.totalLikes = total_likes]

\* the likes counter as it stands once the toggles that have read their like
\* document and not yet committed have all committed, with one more of delta
Projected(glyph_id, delta) ==
    glyphs[glyph_id].likes + delta
      + Cardinality({v \in DOMAIN pc : pc[v] = "tl_commit" /\ local[v].g = glyph_id
                                        /\ ~local[v].exists})
      - Cardinality({v \in DOMAIN pc : pc[v] = "tl_commit" /\ local[v].g = glyph_id
                                        /\ local[v].exists})

\* the requests made: a toggle is sent while the counter it leads to lies within
\* MaxDrift of the numbers of likes there can be
InRange(n) == n \in (0 - MaxDrift)..(NumUsers + MaxDrift)

toggle_like(w, glyph_id, user_id, fails) ==
    /\ pc[w] = "idle"
    /\ UNCHANGED <<store, now>>
    /\ IF glyph_id = ""
       THEN Return(w, LikeResp(glyph_id, "", 400, FALSE, 0))
       ELSE IF fails
       THEN Return(w, LikeResp(glyph_id, user_id, 500, FALSE, 0))
       ELSE LET exists == DocExists(likes, DocId(glyph_id, user_id))
            IN /\ glyph_id \in DOMAIN glyphs =>
                      InRange(Projected(glyph_id, IF exists THEN 0 - 1 ELSE 1))
               /\ Goto(w, "tl_commit",
                       [NoLocal EXCEPT !.g = glyph_id, !.actor = user_id,
                                       !.exists = exists])

toggle_like_commit(w, fails) ==
    /\ pc[w] = "tl_commit"
    /\ UNCHANGED <<glyphViews, glyphDownloads, created, users, now>>
    /\ LET glyph_id == local[w].g
           user_id == local[w].actor
           like_id == DocId(glyph_id, user_id)
       IN   IF fails \/ ~glyphs[glyph_id].exists
            THEN /\ UNCHANGED <<glyphs, likes>>
                 /\ Return(w, LikeResp(glyph_id, user_id, 500, FALSE, 0))
            ELSE IF local[w].exists
            THEN /\ likes' = DeleteDoc(likes, like_id)
                 /\ glyphs' = [glyphs EXCEPT ![glyph_id].likes = @ - 1]
                 /\ Goto(w, "tl_read", [local[w] EXCEPT !.liked = FALSE])
            ELSE /\ likes' = SetDoc(likes, LikeDoc(glyph_id, user_id))
                 /\ glyphs' = [glyphs EXCEPT ![glyph_id].likes = @ + 1]
                 /\ Goto(w, "tl_read", [local[w] EXCEPT !.liked = TRUE])

\* the read of the counter for the answer; the write has been made by then, and
\* a read that raises turns the answer into a 500
toggle_like_read(w, fails) ==
    /\ pc[w] = "tl_read"
    /\ UNCHANGED <<store, now>>
    /\ LET glyph_doc == glyphs[local[w].g]
           total_likes == IF glyph_doc.exists THEN glyph_doc.likes ELSE 0
       IN IF fails
          THEN Return(w, LikeResp(local[w].g, local[w].actor, 500, FALSE, 0))
          ELSE Return(w, LikeResp(local[w].g, local[w].actor, 200, local[w].liked,
                                  total_likes))

----------------------------------------------------------------------------
(* get_glyph: the detail read with its lazy reconcile *)

\* should_sync that takes a stamp of exactly LazySyncAge for stale
should_sync_inclusive(last_sync, t) ==
    IF last_sync = NoSync THEN TRUE ELSE t - last_sync >= LazySyncAge

should_sync(last_sync, t) ==
    IF last_sync = NoSync THEN TRUE ELSE t - last_sync > LazySyncAge

GlyphResp(glyph_id, status, v, l, d) ==
    [NoResp EXCEPT !.op = "get_glyph", !.g = glyph_id, !.status = status,
                   !.views = v, !.likes = l, !.downloads = d]

\* the comparison that looks at the views only
Differs_views_only(doc, v, l, d) == doc.views # v

Differs(doc, v, l, d) == doc.views # v \/ doc.likes # l \/ doc.downloads # d

get_glyph(w, glyph_id, fails) ==
    /\ pc[w] = "idle"
    /\ UNCHANGED <<store, now>>
    /\ LET doc == glyphs[glyph_id]
       IN IF fails
          THEN Return(w, GlyphResp(glyph_id, 500, 0, 0, 0))
          ELSE IF ~doc.exists
          THEN Return(w, GlyphResp(glyph_id, 404, 0, 0, 0))
          ELSE IF should_sync(doc.lastCountSync, now)
          THEN Goto(w, "gg_views",
                    [NoLocal EXCEPT !.g = glyph_id,
                                    !.glyph_data = [views |-> doc.views, likes |-> doc.likes,
                                                    downloads |-> doc.downloads]])
          ELSE Return(w, GlyphResp(glyph_id, 200, doc.views, doc.likes, doc.downloads))

get_glyph_views(w) ==
    /\ pc[w] = "gg_views"
    /\ UNCHANGED <<store, now>>
    /\ Goto(w, "gg_likes",
                [local[w] EXCEPT !.views_count = CountWhere(glyphViews, local[w].g)])

get_glyph_likes(w) ==
    /\ pc[w] = "gg_likes"
    /\ UNCHANGED <<store, now>>
    /\ Goto(w, "gg_downloads",
                [local[w] EXCEPT !.likes_count = CountWhere(likes, local[w].g)])

get_glyph_downloads(w) ==
    /\ pc[w] = "gg_downloads"
    /\ UNCHANGED <<store, now>>
    /\ Goto(w, "gg_update",
                [local[w] EXCEPT !.downloads_count = CountWhere(glyphDownloads, local[w].g)])

\* a count raises: the reconcile is given up, and the answer is the document
\* as it was read
get_glyph_error(w) ==
    /\ pc[w] \in {"gg_views", "gg_likes", "gg_downloads"}
    /\ UNCHANGED <<store, now>>
    /\ LET glyph_data == local[w].glyph_data
       IN Return(w, GlyphResp(local[w].g, 200, glyph_data.views, glyph_data.likes,
                              glyph_data.downloads))

\* get_glyph whose no-change branch writes the counts it read as well
get_glyph_update_rewrite(w, fails) ==
    /\ pc[w] = "gg_update"
    /\ UNCHANGED <<glyphViews, likes, glyphDownloads, created, users, now>>
    /\ LET glyph_id == local[w].g
           glyph_data == local[w].glyph_data
           v == local[w].views_count
           l == local[w].likes_count
           d == local[w].downloads_count
       IN   IF fails \/ ~glyphs[glyph_id].exists
            THEN /\ UNCHANGED glyphs
                 /\ Return(w, GlyphResp(glyph_id, 200, glyph_data.views, glyph_data.likes,
                                        glyph_data.downloads))
            ELSE /\ glyphs' = [glyphs EXCEPT ![glyph_id].views = v,
                                             ![glyph_id].likes = l,
                                             ![glyph_id].downloads = d,
                                             ![glyph_id].lastCountSync = now,
                                             ![glyph_id].syncType =
                                                 IF Differs(glyph_data, v, l, d)
                                                 THEN "auto_detail_page"
                                                 ELSE "auto_detail_page_no_change"]
                 /\ Return(w, GlyphResp(glyph_id, 200, v, l, d))

get_glyph_update(w, fails) ==
    /\ pc[w] = "gg_update"
    /\ UNCHANGED <<glyphViews, likes, glyphDownloads, created, users, now>>
    /\ LET glyph_id == local[w].g
           glyph_data == local[w].glyph_data
           v == local[w].views_count
           l == local[w].likes_count
           d == local[w].downloads_count
       IN   IF fails \/ ~glyphs[glyph_id].exists
            THEN /\ UNCHANGED glyphs
                 /\ Return(w, GlyphResp(glyph_id, 200, glyph_data.views, glyph_data.likes,
                                        glyph_data.downloads))
            ELSE IF Differs(glyph_data, v, l, d)
            THEN /\ glyphs' = [glyphs EXCEPT ![glyph_id].views = v,
                                             ![glyph_id].likes = l,
                                             ![glyph_id].downloads = d,
                                             ![glyph_id].lastCountSync = now,
                                             ![glyph_id].syncType = "auto_detail_page"]
                 /\ Return(w, GlyphResp(glyph_id, 200, v, l, d))
            ELSE /\ glyphs' = [glyphs EXCEPT ![glyph_id].lastCountSync = now,
                                             ![glyph_id].syncType = "auto_detail_page_no_change"]
                 /\ Return(w, GlyphResp(glyph_id, 200, glyph_data.views, glyph_data.likes,
                                        glyph_data.downloads))

----------------------------------------------------------------------------
(* delete_glyph, admin_delete_glyph and delete_user_data. The documents of one
   stream are deleted one store call after another; once the glyph document is
   gone no writer can add a record of the glyph, so the deletes of one stream
   are taken as one step. *)

\* the id that is_admin and require_admin take for an admin without a read
SuperAdmin == "9H3pw5zS6GRDFTZaoYspEmruORj2"

\* those who call the handlers that ask for a user: the users and the super admin
Callers == Users \cup {SuperAdmin}

\* is_admin: True for the super admin, without a read; else the read of the
\* profile, and isAdmin of the profile when there is one; False when the
\* read raises
is_admin(user_id, fails) ==
    IF user_id = SuperAdmin THEN TRUE
    ELSE IF fails THEN FALSE
    ELSE \E d \in users : d.id = user_id /\ d.isAdmin

\* the decorator require_admin: the status it answers with, 200 when it lets
\* the call through to the handler; 401 when its read raises
require_admin(uid, fails) ==
    IF uid = SuperAdmin THEN 200
    ELSE IF fails THEN 401
    ELSE IF \E d \in users : d.id = uid /\ d.isAdmin THEN 200
    ELSE 403

DeleteResp(op, glyph_id, user_id, status) ==
    [NoResp EXCEPT !.op = op, !.g = glyph_id, !.actor = user_id, !.status = status]

\* where('glyphId', '==', glyph_id).stream(): the ids of the documents of the
\* collection with this glyphId, in id order; actor(i) is the i-th of the n
\* users or addresses a document id can end with
StreamWhere(coll, glyph_id, actor(_), n) ==
    SelectSeq([i \in 1..n |-> DocId(glyph_id, actor(i))], LAMBDA id : DocExists(coll, id))

DeleteDocs(coll, ids) == {d \in coll : d.id \notin ids}

DeletePcs ==
    {"dg_delete", "dg_likes", "dg_likes_delete", "dg_views", "dg_views_delete",
     "dg_downloads", "dg_downloads_delete"}

\* the read of the glyph, and is_creator from what was read
delete_glyph(w, glyph_id, user_id, fails) ==
    /\ pc[w] = "idle"
    /\ UNCHANGED <<store, now>>
    /\ IF fails
       THEN Return(w, DeleteResp("delete_glyph", glyph_id, user_id, 500))
       ELSE IF ~glyphs[glyph_id].exists
       THEN Return(w, DeleteResp("delete_glyph", glyph_id, user_id, 404))
       ELSE Goto(w, "dg_admin",
                 [NoLocal EXCEPT !.g = glyph_id, !.actor = user_id,
                                 !.is_creator = glyphs[glyph_id].creatorId = user_id])

\* is_admin(user_id), called whoever the creator is, and the test of the two
delete_glyph_admin(w, fails) ==
    /\ pc[w] = "dg_admin"
    /\ UNCHANGED <<store, now>>
    /\ IF ~local[w].is_creator /\ ~is_admin(local[w].actor, fails)
       THEN Return(w, DeleteResp("delete_glyph", local[w].g, local[w].actor, 403))
       ELSE Goto(w, "dg_delete", local[w])

delete_glyph_delete(w) ==
    /\ pc[w] = "dg_delete"
    /\ glyphs' = [glyphs EXCEPT ![local[w].g] = NoDoc]
    /\ UNCHANGED <<glyphViews, likes, glyphDownloads, created, users, now>>
    /\ Goto(w, "dg_likes", local[w])

\* the stream of the likes of the glyph; with none of them the loop has no turn
delete_glyph_likes(w) ==
    /\ pc[w] = "dg_likes"
    /\ UNCHANGED <<store, now>>
    /\ LET ids == StreamWhere(likes, local[w].g, User, NumUsers)
       IN Goto(w, IF ids = <<>> THEN "dg_views" ELSE "dg_likes_delete",
                  [local[w] EXCEPT !.glyph_ids = ids])

\* like.reference.delete(): one turn of the loop, one document deleted
delete_glyph_likes_delete(w) ==
    /\ pc[w] = "dg_likes_delete"
    /\ likes' = DeleteDoc(likes, Head(local[w].glyph_ids))
    /\ UNCHANGED <<glyphs, glyphViews, glyphDownloads, created, users, now>>
    /\ LET rest == Tail(local[w].glyph_ids)
       IN Goto(w, IF rest = <<>> THEN "dg_views" ELSE "dg_likes_delete",
                  [local[w] EXCEPT !.glyph_ids = rest])

delete_glyph_views(w) ==
    /\ pc[w] = "dg_views"
    /\ UNCHANGED <<store, now>>
    /\ LET ids == StreamWhere(glyphViews, local[w].g, IP, NumIPs)
       IN Goto(w, IF ids = <<>> THEN "dg_downloads" ELSE "dg_views_delete",
                  [local[w] EXCEPT !.glyph_ids = ids])

\* view.reference.delete(): one turn of the loop
delete_glyph_views_delete(w) ==
    /\ pc[w] = "dg_views_delete"
    /\ glyphViews' = DeleteDoc(glyphViews, Head(local[w].glyph_ids))
    /\ UNCHANGED <<glyphs, likes, glyphDownloads, created, users, now>>
    /\ LET rest == Tail(local[w].glyph_ids)
       IN Goto(w, IF rest = <<>> THEN "dg_downloads" ELSE "dg_views_delete",
                  [local[w] EXCEPT !.glyph_ids = rest])

\* the stream of the downloads; with none of them the call answers
delete_glyph_downloads(w) ==
    /\ pc[w] = "dg_downloads"
    /\ UNCHANGED <<store, now>>
    /\ LET ids == StreamWhere(glyphDownloads, local[w].g, IP, NumIPs)
       IN IF ids = <<>>
          THEN Return(w, DeleteResp("delete_glyph", local[w].g, local[w].actor, 200))
          ELSE Goto(w, "dg_downloads_delete", [local[w] EXCEPT !.glyph_ids = ids])

\* download.reference.delete(): one turn of the loop; after the last one the
\* call answers
delete_glyph_downloads_delete(w) ==
    /\ pc[w] = "dg_downloads_delete"
    /\ glyphDownloads' = DeleteDoc(glyphDownloads, Head(local[w].glyph_ids))
    /\ UNCHANGED <<glyphs, glyphViews, likes, created, users, now>>
    /\ LET rest == Tail(local[w].glyph_ids)
       IN IF rest = <<>>
          THEN Return(w, DeleteResp("delete_glyph", local[w].g, local[w].actor, 200))
          ELSE Goto(w, "dg_downloads_delete", [local[w] EXCEPT !.glyph_ids = rest])

\* a store call of delete_glyph raises, a delete inside a loop as well: what
\* was deleted stays deleted
delete_glyph_error(w) ==
    /\ pc[w] \in DeletePcs
    /\ UNCHANGED <<store, now>>
    /\ Return(w, DeleteResp("delete_glyph", local[w].g, local[w].actor, 500))

AdminDeletePcs == {"ad_delete", "ad_likes", "ad_likes_delete"}

\* the call, through require_admin
admin_delete_glyph(w, uid, glyph_id, fails) ==
    /\ pc[w] = "idle"
    /\ UNCHANGED <<store, now>>
    /\ IF require_admin(uid, fails) # 200
       THEN Return(w, DeleteResp("admin_delete_glyph", glyph_id, uid, require_admin(uid, fails)))
       ELSE Goto(w, "ad_get", [NoLocal EXCEPT !.g = glyph_id, !.actor = uid])

\* the read of the glyph
admin_delete_glyph_get(w, fails) ==
    /\ pc[w] = "ad_get"
    /\ UNCHANGED <<store, now>>
    /\ IF fails
       THEN Return(w, DeleteResp("admin_delete_glyph", local[w].g, local[w].actor, 500))
       ELSE IF ~glyphs[local[w].g].exists
       THEN Return(w, DeleteResp("admin_delete_glyph", local[w].g, local[w].actor, 404))
       ELSE Goto(w, "ad_delete", local[w])

admin_delete_glyph_delete(w) ==
    /\ pc[w] = "ad_delete"
    /\ glyphs' = [glyphs EXCEPT ![local[w].g] = NoDoc]
    /\ UNCHANGED <<glyphViews, likes, glyphDownloads, created, users, now>>
    /\ Goto(w, "ad_likes", local[w])

\* the stream of the likes of the glyph; with none of them the call answers
admin_delete_glyph_likes(w) ==
    /\ pc[w] = "ad_likes"
    /\ UNCHANGED <<store, now>>
    /\ LET ids == StreamWhere(likes, local[w].g, User, NumUsers)
       IN IF ids = <<>>
          THEN Return(w, DeleteResp("admin_delete_glyph", local[w].g, local[w].actor, 200))
          ELSE Goto(w, "ad_likes_delete", [local[w] EXCEPT !.glyph_ids = ids])

\* like_doc.reference.delete(): one turn of the loop; after the last one the
\* call answers. Views and downloads are not looked at
admin_delete_glyph_likes_delete(w) ==
    /\ pc[w] = "ad_likes_delete"
    /\ likes' = DeleteDoc(likes, Head(local[w].glyph_ids))
    /\ UNCHANGED <<glyphs, glyphViews, glyphDownloads, created, users, now>>
    /\ LET rest == Tail(local[w].glyph_ids)
       IN IF rest = <<>>
          THEN Return(w, DeleteResp("admin_delete_glyph", local[w].g, local[w].actor, 200))
          ELSE Goto(w, "ad_likes_delete", [local[w] EXCEPT !.glyph_ids = rest])

admin_delete_glyph_error(w) ==
    /\ pc[w] \in AdminDeletePcs
    /\ UNCHANGED <<store, now>>
    /\ Return(w, DeleteResp("admin_delete_glyph", local[w].g, local[w].actor, 500))

\* delete_user_data: the glyphs created by uid
delete_user_data(w, uid, fails) ==
    /\ pc[w] = "idle"
    /\ UNCHANGED <<store, now>>
    /\ IF fails
       THEN Return(w, DeleteResp("delete_user_data", "", uid, 500))
       ELSE Goto(w, "du_likes",
                 [NoLocal EXCEPT !.actor = uid,
                                 !.glyph_ids = SelectSeq(StreamGlyphs,
                                                         LAMBDA g : glyphs[g].creatorId = uid)])

\* the likes given by uid
delete_user_data_likes(w, fails) ==
    /\ pc[w] = "du_likes"
    /\ UNCHANGED <<store, now>>
    /\ IF fails
       THEN Return(w, DeleteResp("delete_user_data", "", local[w].actor, 500))
       ELSE Goto(w, "du_commit",
                 [local[w] EXCEPT
                     !.batch = {d.id : d \in {x \in likes : x.userId = local[w].actor}}])

\* the commit of the batch of deletes, all of them or none
delete_user_data_commit(w, fails) ==
    /\ pc[w] = "du_commit"
    /\ UNCHANGED <<glyphViews, glyphDownloads, created, now>>
    /\ IF fails
       THEN /\ UNCHANGED <<glyphs, likes, users>>
            /\ Return(w, DeleteResp("delete_user_data", "", local[w].actor, 500))
       ELSE /\ glyphs' = [g \in DOMAIN glyphs |->
                            IF \E i \in 1..Len(local[w].glyph_ids) : local[w].glyph_ids[i] = g
                            THEN NoDoc ELSE glyphs[g]]
            /\ likes' = DeleteDocs(likes, local[w].batch)
            /\ users' = DeleteDoc(users, local[w].actor)
            /\ Return(w, [DeleteResp("delete_user_data", "", local[w].actor, 200)
                             EXCEPT !.totalChecked = Len(local[w].glyph_ids)])

----------------------------------------------------------------------------
(* make_user_admin, add_admin_by_email and admin_update_user: the handlers
   that write isAdmin of a profile, each behind require_admin *)

AdminResp(op, uid, user_id, status) ==
    [NoResp EXCEPT !.op = op, !.actor = uid, !.g = user_id, !.status = status]

\* document.update({'isAdmin': ...}): the profile with its isAdmin replaced
SetAdmin(user_id, isAdmin) ==
    {IF d.id = user_id THEN [d EXCEPT !.isAdmin = isAdmin] ELSE d : d \in users}

\* the call, through require_admin
make_user_admin(w, uid, user_id, fails) ==
    /\ pc[w] = "idle"
    /\ UNCHANGED <<store, now>>
    /\ IF require_admin(uid, fails) # 200
       THEN Return(w, AdminResp("make_user_admin", uid, user_id, require_admin(uid, fails)))
       ELSE Goto(w, "ma_get", [NoLocal EXCEPT !.actor = uid, !.g = user_id])

\* the read of the profile to promote
make_user_admin_get(w, fails) ==
    /\ pc[w] = "ma_get"
    /\ UNCHANGED <<store, now>>
    /\ LET l == local[w]
       IN IF fails THEN Return(w, AdminResp("make_user_admin", l.actor, l.g, 500))
          ELSE IF ~DocExists(users, l.g)
          THEN Return(w, AdminResp("make_user_admin", l.actor, l.g, 404))
          ELSE Goto(w, "ma_update", l)

\* the update of the profile; it raises when the profile is gone
make_user_admin_update(w, fails) ==
    /\ pc[w] = "ma_update"
    /\ UNCHANGED <<glyphs, glyphViews, likes, glyphDownloads, created, now>>
    /\ LET l == local[w]
       IN IF fails \/ ~DocExists(users, l.g)
          THEN /\ UNCHANGED users
               /\ Return(w, AdminResp("make_user_admin", l.actor, l.g, 500))
          ELSE /\ users' = SetAdmin(l.g, TRUE)
               /\ Return(w, AdminResp("make_user_admin", l.actor, l.g, 200))

\* the call, through require_admin; email is "" when the request has none
add_admin_by_email(w, uid, email, fails) ==
    /\ pc[w] = "idle"
    /\ UNCHANGED <<store, now>>
    /\ IF require_admin(uid, fails) # 200
       THEN Return(w, AdminResp("add_admin_by_email", uid, "", require_admin(uid, fails)))
       ELSE Goto(w, "aa_stream", [NoLocal EXCEPT !.actor = uid, !.data = [email |-> email]])

\* the test of the email and the stream of the profiles that have it: the
\* first of them is the one to promote
add_admin_by_email_stream(w, fails) ==
    /\ pc[w] = "aa_stream"
    /\ UNCHANGED <<store, now>>
    /\ LET l == local[w]
           found == {d.id : d \in {x \in users : x.email = l.data.email}}
       IN IF l.data.email = ""
          THEN Return(w, AdminResp("add_admin_by_email", l.actor, "", 400))
          ELSE IF fails
          THEN Return(w, AdminResp("add_admin_by_email", l.actor, "", 500))
          ELSE IF found = {}
          THEN Return(w, AdminResp("add_admin_by_email", l.actor, "", 404))
          ELSE \E user_found \in found : Goto(w, "aa_update", [l EXCEPT !.g = user_found])

\* the update of the profile found; it raises when the profile is gone
add_admin_by_email_update(w, fails) ==
    /\ pc[w] = "aa_update"
    /\ UNCHANGED <<glyphs, glyphViews, likes, glyphDownloads, created, now>>
    /\ LET l == local[w]
       IN IF fails \/ ~DocExists(users, l.g)
          THEN /\ UNCHANGED users
               /\ Return(w, AdminResp("add_admin_by_email", l.actor, l.g, 500))
          ELSE /\ users' = SetAdmin(l.g, TRUE)
               /\ Return(w, AdminResp("add_admin_by_email", l.actor, l.g, 200))

\* the fields of a profile that admin_update_user lets a request change
admin_allowed_fields ==
    {"username", "displayName", "bio", "profilePicture", "bannerImage", "isAdmin"}

\* the call, through require_admin
admin_update_user(w, uid, user_id, data, fails) ==
    /\ pc[w] = "idle"
    /\ UNCHANGED <<store, now>>
    /\ IF require_admin(uid, fails) # 200
       THEN Return(w, AdminResp("admin_update_user", uid, user_id, require_admin(uid, fails)))
       ELSE Goto(w, "au_update", [NoLocal EXCEPT !.actor = uid, !.g = user_id, !.data = data])

\* the update of the profile with the fields of the request that may be
\* changed; with none of them there is no write, and the update raises when the
\* profile is gone
admin_update_user_update(w, fails) ==
    /\ pc[w] = "au_update"
    /\ UNCHANGED <<glyphs, glyphViews, likes, glyphDownloads, created, now>>
    /\ LET l == local[w]
           update_data == [f \in DOMAIN l.data \cap admin_allowed_fields |-> l.data[f]]
       IN IF DOMAIN update_data = {}
          THEN /\ UNCHANGED users
               /\ Return(w, AdminResp("admin_update_user", l.actor, l.g, 200))
          ELSE IF fails \/ ~DocExists(users, l.g)
          THEN /\ UNCHANGED users
               /\ Return(w, AdminResp("admin_update_user", l.actor, l.g, 500))
          ELSE /\ users' = IF "isAdmin" \in DOMAIN update_data
                           THEN SetAdmin(l.g, update_data.isAdmin) ELSE users
               /\ Return(w, AdminResp("admin_update_user", l.actor, l.g, 200))

----------------------------------------------------------------------------
(* upload_glyph and the clock *)

\* the fields of a glyph that update_glyph lets a request change
allowed_fields == {"title", "description", "apkUrl", "githubUrl", "instructions", "images"}

\* the five fields that the write path and the reconcilers maintain
CounterFields == {"views", "likes", "downloads", "lastCountSync", "syncType"}

\* the sets of keys of the request bodies sent to update_glyph: none, fields it
\* may change, each maintained field alone, all of them, all of them with a title
Bodies ==
    {{}, {"title"}, {"description"}, CounterFields, CounterFields \cup {"title"}}
      \cup {{f} : f \in CounterFields}

\* the request body with these keys: new texts, and for the counters and the
\* time of the last reconcile a number that no handler of the model writes
Body(keys) ==
    [f \in keys |-> CASE f \in {"title", "description"} -> "edited"
                     [] f = "syncType" -> "forged"
                     [] OTHER -> NumIPs + NumUsers + 1]

\* document.update(fields): the fields given replace those of the document
UpdateDoc(doc, fields) ==
    [f \in DOMAIN doc |-> IF f \in DOMAIN fields THEN fields[f] ELSE doc[f]]

UpdateResp(glyph_id, user_id, status) ==
    [NoResp EXCEPT !.op = "update_glyph", !.g = glyph_id, !.actor = user_id, !.status = status]

\* the read of the glyph, and is_creator from what was read
update_glyph(w, glyph_id, user_id, data, fails) ==
    /\ pc[w] = "idle"
    /\ UNCHANGED <<store, now>>
    /\ LET glyph_data == glyphs[glyph_id]
       IN IF fails
          THEN Return(w, UpdateResp(glyph_id, user_id, 500))
          ELSE IF ~glyph_data.exists
          THEN Return(w, UpdateResp(glyph_id, user_id, 404))
          ELSE Goto(w, "ug_admin", [NoLocal EXCEPT !.g = glyph_id, !.actor = user_id,
                                                   !.data = data,
                                                   !.is_creator = glyph_data.creatorId = user_id])

\* is_admin(user_id), called whoever the creator is, the test of the two, and
\* the fields of the request that may be changed: with none of them the answer
\* is given without a write
update_glyph_admin(w, fails) ==
    /\ pc[w] = "ug_admin"
    /\ UNCHANGED <<store, now>>
    /\ LET l == local[w]
           update_data == [f \in DOMAIN l.data \cap allowed_fields |-> l.data[f]]
       IN IF ~l.is_creator /\ ~is_admin(l.actor, fails)
          THEN Return(w, UpdateResp(l.g, l.actor, 403))
          ELSE IF DOMAIN update_data = {}
          THEN Return(w, UpdateResp(l.g, l.actor, 200))
          ELSE Goto(w, "ug_update", [l EXCEPT !.update_data = update_data])

\* update_glyph that writes every field of the request body
update_glyph_update_unfiltered(w, fails) ==
    /\ pc[w] = "ug_update"
    /\ UNCHANGED <<glyphViews, likes, glyphDownloads, created, users, now>>
    /\ LET l == local[w]
       IN IF fails \/ ~glyphs[l.g].exists
          THEN /\ UNCHANGED glyphs
               /\ Return(w, UpdateResp(l.g, l.actor, 500))
          ELSE /\ glyphs' = [glyphs EXCEPT ![l.g] = UpdateDoc(@, l.data)]
               /\ Return(w, UpdateResp(l.g, l.actor, 200))

\* the update of the document; it raises when the document is gone
update_glyph_update(w, fails) ==
    /\ pc[w] = "ug_update"
    /\ UNCHANGED <<glyphViews, likes, glyphDownloads, created, users, now>>
    /\ LET l == local[w]
       IN IF fails \/ ~glyphs[l.g].exists
          THEN /\ UNCHANGED glyphs
               /\ Return(w, UpdateResp(l.g, l.actor, 500))
          ELSE /\ glyphs' = [glyphs EXCEPT ![l.g] = UpdateDoc(@, l.update_data)]
               /\ Return(w, UpdateResp(l.g, l.actor, 200))

UploadResp(glyph_id, user_id, status) ==
    [NoResp EXCEPT !.op = "upload_glyph", !.g = glyph_id, !.actor = user_id, !.status = status]

required_fields == {"title", "description"}

\* the request body of an upload with these keys, each with a text of its own
UploadBody(keys) == [f \in keys |-> f]

\* not data.get(field): the key is missing or its value is empty
Missing(data, field) == field \notin DOMAIN data \/ data[field] = ""

\* the ids the store has not handed out yet
FreshIds == DOMAIN glyphs \ created

\* upload_glyph: the test of the body and the read of the user's profile. As
\* many uploads are under way as there are ids left to hand out
upload_glyph(w, user_id, data, fails) ==
    /\ pc[w] = "idle"
    /\ Cardinality(FreshIds) > Cardinality({v \in DOMAIN pc : pc[v] = "up_add"})
    /\ UNCHANGED <<store, now>>
    /\ IF \E field \in required_fields : Missing(data, field)
       THEN Return(w, UploadResp("", user_id, 400))
       ELSE IF fails
       THEN Return(w, UploadResp("", user_id, 500))
       ELSE IF ~DocExists(users, user_id)
       THEN Return(w, UploadResp("", user_id, 404))
       ELSE Goto(w, "up_add", [NoLocal EXCEPT !.actor = user_id, !.data = data])

\* collection('glyphs').add: the document gets an id of the store's choosing,
\* any id not handed out before, with the three counters at 0
upload_glyph_add(w, fails) ==
    /\ pc[w] = "up_add"
    /\ UNCHANGED <<glyphViews, likes, glyphDownloads, users, now>>
    /\ IF fails
       THEN /\ UNCHANGED <<glyphs, created>>
            /\ Return(w, UploadResp("", local[w].actor, 500))
       ELSE \E glyph_id \in FreshIds :
               /\ created' = created \cup {glyph_id}
               /\ glyphs' = [glyphs EXCEPT ![glyph_id] =
                                [NewGlyph(local[w].actor) EXCEPT !.title = local[w].data.title]]
               /\ Return(w, UploadResp(glyph_id, local[w].actor, 200))

Ticks == (now \div LazySyncAge) + (now % LazySyncAge)

Tick ==
    /\ Ticks < MaxTicks
    /\ \E step \in Steps : now' = now + step
    /\ UNCHANGED <<store, pc, local, log, recording, caching, service>>

----------------------------------------------------------------------------
(* sync_glyph_counts: the admin reconcile *)

BatchSizes == {1, DefaultBatchSize, MaxBatchSize + 100}

\* sync_glyph_counts that reports every update and every error
SyncResp_untruncated(status, l) ==
    [NoResp EXCEPT !.op = "sync_glyph_counts", !.status = status,
                   !.syncedCount = l.synced_count,
                   !.totalChecked = Len(l.glyph_ids),
                   !.syncType = IF l.sync_all THEN "admin_full" ELSE "admin_batch",
                   !.sampleUpdates = l.updates,
                   !.errors = l.errors]

SyncResp(status, l) ==
    [NoResp EXCEPT !.op = "sync_glyph_counts", !.status = status,
                   !.syncedCount = l.synced_count,
                   !.totalChecked = Len(l.glyph_ids),
                   !.syncType = IF l.sync_all THEN "admin_full" ELSE "admin_batch",
                   !.sampleUpdates = Take(l.updates, MaxSampleUpdates),
                   !.errors = Take(l.errors, MaxSampleErrors)]

SyncFailed == [NoResp EXCEPT !.op = "sync_glyph_counts", !.status = 500]

SyncDenied == [NoResp EXCEPT !.op = "sync_glyph_counts", !.status = 403]

\* the call: is_admin(user_id) before anything else
sync_glyph_counts(w, user_id, glyph_id, sync_all, requested, fails) ==
    /\ pc[w] = "idle"
    /\ UNCHANGED <<store, now>>
    /\ IF ~is_admin(user_id, fails)
       THEN Return(w, SyncDenied)
       ELSE Goto(w, "sg_select", [NoLocal EXCEPT !.g = glyph_id, !.sync_all = sync_all,
                                                !.requested = requested])

\* the ids to reconcile: the one of the request, or the stream of all the
\* glyphs, or of the first batch_size of them; a stream that raises ends the
\* call
sync_glyph_counts_select(w, fails) ==
    /\ pc[w] = "sg_select"
    /\ UNCHANGED <<store, now>>
    /\ LET batch_size == Min(local[w].requested, MaxBatchSize)
           glyph_id == local[w].g
           sync_all == local[w].sync_all
           glyph_ids == IF glyph_id # "" THEN <<glyph_id>>
                        ELSE IF sync_all THEN StreamGlyphs
                        ELSE Take(StreamGlyphs, batch_size)
           l == [NoLocal EXCEPT !.sync_all = sync_all, !.glyph_ids = glyph_ids, !.k = 1]
       IN IF fails /\ glyph_id = ""
          THEN Return(w, SyncFailed)
          ELSE IF glyph_ids = <<>>
          THEN Return(w, SyncResp(200, l))
          ELSE Goto(w, "sg_views", l)

sync_glyph_counts_views(w) ==
    /\ pc[w] = "sg_views"
    /\ UNCHANGED <<store, now>>
    /\ LET glyph_id == local[w].glyph_ids[local[w].k]
       IN Goto(w, "sg_likes",
                   [local[w] EXCEPT !.views_count = CountWhere(glyphViews, glyph_id)])

sync_glyph_counts_likes(w) ==
    /\ pc[w] = "sg_likes"
    /\ UNCHANGED <<store, now>>
    /\ LET glyph_id == local[w].glyph_ids[local[w].k]
       IN Goto(w, "sg_downloads",
                   [local[w] EXCEPT !.likes_count = CountWhere(likes, glyph_id)])

sync_glyph_counts_downloads(w) ==
    /\ pc[w] = "sg_downloads"
    /\ UNCHANGED <<store, now>>
    /\ LET glyph_id == local[w].glyph_ids[local[w].k]
       IN Goto(w, "sg_doc",
                   [local[w] EXCEPT !.downloads_count = CountWhere(glyphDownloads, glyph_id)])

\* sync_glyph_counts that keeps one batch for the whole list of ids
SyncAdvance_single_batch(w, l) ==
    LET next == [l EXCEPT !.k = @ + 1, !.views_count = 0, !.likes_count = 0,
                          !.downloads_count = 0]
    IN IF l.k # Len(l.glyph_ids) THEN Goto(w, "sg_views", next)
       ELSE IF l.batch # {} THEN Goto(w, "sg_commit", l)
       ELSE Return(w, SyncResp(200, l))

\* the end of the loop body for item k: on to the next item of the chunk, to the
\* chunk's commit, to the next chunk, or to the report
SyncAdvance(w, l) ==
    LET last_of_chunk == l.k % chunk_size = 0 \/ l.k = Len(l.glyph_ids)
        next == [l EXCEPT !.k = @ + 1, !.views_count = 0, !.likes_count = 0,
                          !.downloads_count = 0]
    IN IF ~last_of_chunk THEN Goto(w, "sg_views", next)
       ELSE IF l.batch # {} THEN Goto(w, "sg_commit", l)
       ELSE IF l.k = Len(l.glyph_ids) THEN Return(w, SyncResp(200, l))
       ELSE Goto(w, "sg_views", next)

\* sync_glyph_counts that stages an update for every document it finds
sync_glyph_counts_doc_always(w) ==
    /\ pc[w] = "sg_doc"
    /\ UNCHANGED <<store, now>>
    /\ LET l == local[w]
           glyph_id == l.glyph_ids[l.k]
           current_data == glyphs[glyph_id]
           v == l.views_count
           lk == l.likes_count
           d == l.downloads_count
       IN IF current_data.exists
          THEN SyncAdvance(w,
                 [l EXCEPT !.batch = @ \cup {[glyphId |-> glyph_id, views |-> v,
                                              likes |-> lk, downloads |-> d]},
                           !.updates = Append(@,
                               [glyphId |-> glyph_id,
                                old |-> <<current_data.views, current_data.likes,
                                          current_data.downloads>>,
                                new |-> <<v, lk, d>>])])
          ELSE SyncAdvance(w, l)

sync_glyph_counts_doc(w) ==
    /\ pc[w] = "sg_doc"
    /\ UNCHANGED <<store, now>>
    /\ LET l == local[w]
           glyph_id == l.glyph_ids[l.k]
           current_data == glyphs[glyph_id]
           v == l.views_count
           lk == l.likes_count
           d == l.downloads_count
       IN IF current_data.exists /\ Differs(current_data, v, lk, d)
          THEN SyncAdvance(w,
                 [l EXCEPT !.batch = @ \cup {[glyphId |-> glyph_id, views |-> v,
                                              likes |-> lk, downloads |-> d]},
                           !.updates = Append(@,
                               [glyphId |-> glyph_id,
                                old |-> <<current_data.views, current_data.likes,
                                          current_data.downloads>>,
                                new |-> <<v, lk, d>>])])
          ELSE SyncAdvance(w, l)

\* sync_glyph_counts that gives up the staged updates of the chunk along with
\* the item whose store call raises
sync_glyph_counts_error_unstages(w) ==
    /\ pc[w] \in {"sg_views", "sg_likes", "sg_downloads", "sg_doc"}
    /\ UNCHANGED <<store, now>>
    /\ LET l == local[w]
       IN SyncAdvance(w, [l EXCEPT !.errors = Append(@, l.glyph_ids[l.k]), !.batch = {}])

\* a store call of the loop body raises: the item is given up with a message
\* among the errors
sync_glyph_counts_error(w) ==
    /\ pc[w] \in {"sg_views", "sg_likes", "sg_downloads", "sg_doc"}
    /\ UNCHANGED <<store, now>>
    /\ LET l == local[w]
       IN SyncAdvance(w, [l EXCEPT !.errors = Append(@, l.glyph_ids[l.k])])

sync_glyph_counts_commit(w, fails) ==
    /\ pc[w] = "sg_commit"
    /\ UNCHANGED <<glyphViews, likes, glyphDownloads, created, users, now>>
    /\ LET l == local[w]
           done == [l EXCEPT !.synced_count = @ + Cardinality(l.batch), !.batch = {},
                             !.commits = @ + 1, !.k = @ + 1, !.views_count = 0, !.likes_count = 0,
                             !.downloads_count = 0]
       IN   IF fails \/ ~BatchCommits(l.batch)
            THEN /\ UNCHANGED glyphs
                 /\ Return(w, SyncFailed)
            ELSE /\ glyphs' = ApplyBatch(l.batch, IF l.sync_all THEN "admin" ELSE "auto")
                 /\ IF l.k = Len(l.glyph_ids)
                    THEN Return(w, SyncResp(200, done))
                    ELSE Goto(w, "sg_views", done)

----------------------------------------------------------------------------
(* BackgroundSyncService.sync_random_glyphs: one run of the sweep *)

SweepSizes == {1, SweepBatchSize}

SweepResp(n) == [NoResp EXCEPT !.op = "sync_random_glyphs", !.syncedCount = n]

SweepStale(doc) ==
    doc.lastCountSync = NoSync \/ doc.lastCountSync < now - SweepSyncAge

\* a sweep that looks for its candidates in the whole catalog
Candidates_whole_catalog(batch_size) ==
    SelectSeq(StreamGlyphs, LAMBDA g : SweepStale(glyphs[g]))

Candidates(batch_size) ==
    SelectSeq(Take(StreamGlyphs, batch_size * 2), LAMBDA g : SweepStale(glyphs[g]))

Range(s) == {s[i] : i \in 1..Len(s)}

\* random.sample(candidates, n): n distinct candidates in some order
Samples(candidates, n) ==
    {s \in [1..n -> Range(candidates)] : \A i, j \in 1..n : i # j => s[i] # s[j]}

\* a request worker calls the sweep from idle, the loop thread from its loop
Ready(w) == pc[w] = IF w \in Workers THEN "idle" ELSE "lp_call"

\* the stream of the glyphs to look at and the sample of the candidates; a
\* stream that raises ends the run with 0
sync_random_glyphs(w, batch_size, fails) ==
    /\ Ready(w)
    /\ UNCHANGED <<store, now>>
    /\ LET candidates == Candidates(batch_size)
       IN \E glyph_ids \in Samples(candidates, Min(batch_size, Len(candidates))) :
            IF fails \/ glyph_ids = <<>>
            THEN Return(w, SweepResp(0))
            ELSE Goto(w, "sw_views", [NoLocal EXCEPT !.glyph_ids = glyph_ids, !.k = 1,
                                                    !.batch_size = batch_size])

sync_random_glyphs_views(w) ==
    /\ pc[w] = "sw_views"
    /\ UNCHANGED <<store, now>>
    /\ LET glyph_id == local[w].glyph_ids[local[w].k]
       IN Goto(w, "sw_likes",
                   [local[w] EXCEPT !.views_count = CountWhere(glyphViews, glyph_id)])

sync_random_glyphs_likes(w) ==
    /\ pc[w] = "sw_likes"
    /\ UNCHANGED <<store, now>>
    /\ LET glyph_id == local[w].glyph_ids[local[w].k]
       IN Goto(w, "sw_downloads",
                   [local[w] EXCEPT !.likes_count = CountWhere(likes, glyph_id)])

\* a sweep that counts but stages no update
sync_random_glyphs_downloads_unstaged(w) ==
    /\ pc[w] = "sw_downloads"
    /\ UNCHANGED <<store, now>>
    /\ LET l == local[w]
           staged == [l EXCEPT !.synced_count = @ + 1, !.views_count = 0, !.likes_count = 0]
       IN IF l.k = Len(l.glyph_ids)
          THEN Goto(w, "sw_commit", staged)
          ELSE Goto(w, "sw_views", [staged EXCEPT !.k = @ + 1])

sync_random_glyphs_downloads(w) ==
    /\ pc[w] = "sw_downloads"
    /\ UNCHANGED <<store, now>>
    /\ LET l == local[w]
           glyph_id == l.glyph_ids[l.k]
           staged == [l EXCEPT !.batch = @ \cup {[glyphId |-> glyph_id,
                                                  views |-> l.views_count,
                                                  likes |-> l.likes_count,
                                                  downloads |-> CountWhere(glyphDownloads, glyph_id)]},
                               !.synced_count = @ + 1,
                               !.views_count = 0, !.likes_count = 0]
       IN IF l.k = Len(l.glyph_ids)
          THEN Goto(w, "sw_commit", staged)
          ELSE Goto(w, "sw_views", [staged EXCEPT !.k = @ + 1])

\* a store call of the loop body raises: the item is given up, with a line in
\* the log that names it (kept in errors), and the loop goes on; nothing is
\* committed when no item was staged
sync_random_glyphs_error(w) ==
    /\ pc[w] \in {"sw_views", "sw_likes", "sw_downloads"}
    /\ UNCHANGED <<store, now>>
    /\ LET l == local[w]
           skipped == [l EXCEPT !.errors = Append(@, l.glyph_ids[l.k]),
                                !.views_count = 0, !.likes_count = 0]
       IN IF l.k # Len(l.glyph_ids)
          THEN Goto(w, "sw_views", [skipped EXCEPT !.k = @ + 1])
          ELSE IF l.synced_count > 0
          THEN Goto(w, "sw_commit", skipped)
          ELSE Return(w, SweepResp(0))

\* a sweep whose failed commit ends the thread that runs it
sync_random_glyphs_commit_fatal(w, fails) ==
    /\ pc[w] = "sw_commit"
    /\ UNCHANGED <<glyphViews, likes, glyphDownloads, created, users, now>>
    /\ LET l == local[w]
       IN   IF fails \/ ~BatchCommits(l.batch)
            THEN /\ UNCHANGED glyphs
                 /\ Goto(w, "lp_exit", NoLocal)
            ELSE /\ glyphs' = ApplyBatch(l.batch, "auto_hourly")
                 /\ Return(w, SweepResp(l.synced_count))

sync_random_glyphs_commit(w, fails) ==
    /\ pc[w] = "sw_commit"
    /\ UNCHANGED <<glyphViews, likes, glyphDownloads, created, users, now>>
    /\ LET l == local[w]
       IN   IF fails \/ ~BatchCommits(l.batch)
            THEN /\ UNCHANGED glyphs
                 /\ Return(w, SweepResp(0))
            ELSE /\ glyphs' = ApplyBatch(l.batch, "auto_hourly")
                 /\ Return(w, SweepResp(l.synced_count))

----------------------------------------------------------------------------
(* migrate_all_glyph_counts (migrate_counts.py): the reconcile of every glyph,
   run by hand as a script. Its answer True is kept as status 200, False as 500,
   with the number of glyphs it reports as migrated. *)

MigrateBatchSize == 500

MigrateResp(status, n) ==
    [NoResp EXCEPT !.op = "migrate_all_glyph_counts", !.status = status, !.syncedCount = n]

\* the grouped write of a batch of the migration: the three counts and the time,
\* syncType left as it is
ApplyMigration(batch) ==
    [g \in DOMAIN glyphs |->
        IF \E u \in batch : u.glyphId = g
        THEN LET u == CHOOSE x \in batch : x.glyphId = g
             IN [glyphs[g] EXCEPT !.views = u.views, !.likes = u.likes,
                                  !.downloads = u.downloads, !.lastCountSync = now]
        ELSE glyphs[g]]

\* the stream of all the glyphs; when it raises the script gives up
migrate_all_glyph_counts(w, fails) ==
    /\ pc[w] = "idle"
    /\ UNCHANGED <<store, now>>
    /\ IF fails THEN Return(w, MigrateResp(500, 0))
       ELSE IF StreamGlyphs = <<>> THEN Return(w, MigrateResp(200, 0))
       ELSE Goto(w, "mg_views", [NoLocal EXCEPT !.glyph_ids = StreamGlyphs, !.k = 1])

migrate_all_glyph_counts_views(w) ==
    /\ pc[w] = "mg_views"
    /\ UNCHANGED <<store, now>>
    /\ LET glyph_id == local[w].glyph_ids[local[w].k]
       IN Goto(w, "mg_likes",
                   [local[w] EXCEPT !.views_count = CountWhere(glyphViews, glyph_id)])

migrate_all_glyph_counts_likes(w) ==
    /\ pc[w] = "mg_likes"
    /\ UNCHANGED <<store, now>>
    /\ LET glyph_id == local[w].glyph_ids[local[w].k]
       IN Goto(w, "mg_downloads",
                   [local[w] EXCEPT !.likes_count = CountWhere(likes, glyph_id)])

\* the end of the loop body for item k: on to the next item of the batch, or to
\* the batch's commit, which is made whatever was staged
MigrateAdvance(w, l) ==
    LET cleared == [l EXCEPT !.views_count = 0, !.likes_count = 0]
    IN IF l.k % MigrateBatchSize = 0 \/ l.k = Len(l.glyph_ids)
       THEN Goto(w, "mg_commit", cleared)
       ELSE Goto(w, "mg_views", [cleared EXCEPT !.k = @ + 1])

\* the third count, and the update staged with the counts, whatever the
\* counters of the document are
migrate_all_glyph_counts_downloads(w) ==
    /\ pc[w] = "mg_downloads"
    /\ UNCHANGED <<store, now>>
    /\ LET l == local[w]
           glyph_id == l.glyph_ids[l.k]
       IN MigrateAdvance(w,
             [l EXCEPT !.batch = @ \cup {[glyphId |-> glyph_id, views |-> l.views_count,
                                          likes |-> l.likes_count,
                                          downloads |-> CountWhere(glyphDownloads, glyph_id)]},
                       !.synced_count = @ + 1])

\* a count raises: the item is given up with a printed line, the loop goes on
migrate_all_glyph_counts_error(w) ==
    /\ pc[w] \in {"mg_views", "mg_likes", "mg_downloads"}
    /\ UNCHANGED <<store, now>>
    /\ MigrateAdvance(w, local[w])

\* the commit of a batch: when it fails the batch is lost with a printed line,
\* and the script goes on to the next batch and to its answer True
migrate_all_glyph_counts_commit(w, fails) ==
    /\ pc[w] = "mg_commit"
    /\ UNCHANGED <<glyphViews, likes, glyphDownloads, created, users, now>>
    /\ LET l == local[w]
           failed == fails \/ ~BatchCommits(l.batch)
           total_synced == IF failed THEN l.total_synced ELSE l.total_synced + l.synced_count
       IN /\ glyphs' = IF failed THEN glyphs ELSE ApplyMigration(l.batch)
          /\ IF l.k = Len(l.glyph_ids)
             THEN Return(w, MigrateResp(200, total_synced))
             ELSE Goto(w, "mg_views", [l EXCEPT !.k = @ + 1, !.batch = {}, !.synced_count = 0,
                                                !.total_synced = total_synced])

----------------------------------------------------------------------------
(* BackgroundSyncService: start, stop and the loop run_hourly_sync.
   thread = 0 is Python's None; the Thread objects are numbered in the order
   of their creation, and started holds the ones that have begun to run. The
   elements of Threads are the runs of run_hourly_sync: "unborn" before
   Thread.start() has handed the run to the interpreter, "lp_boot" until it
   marks its object as started. The except branch of the loop is never taken,
   since sync_random_glyphs returns 0 on every failure. A call that raises
   RuntimeError is kept as status 500.

   The clock moves while the loop sleeps: a sleep ends 3600 s after it began,
   and the calls between two sleeps take no time. *)

ServiceResp(op, status) == [NoResp EXCEPT !.op = op, !.status = status]

Unborn == {t \in Threads : pc[t] = "unborn"}

\* the runs of the loop that have begun and not ended
Alive == {t \in Threads : pc[t] \notin {"unborn", "lp_boot", "lp_exit"}}

StartPcs == {"st_set", "st_thread", "st_start", "st_spawn", "st_wait"}

\* start(): the test of the flag; no more calls pass it than there are runs of
\* the loop left to begin
start(w) ==
    /\ pc[w] = "idle"
    /\ UNCHANGED <<store, now, caching, service>>
    /\ IF running
       THEN Finish(w, ServiceResp("start", 200))
       ELSE /\ Cardinality(Unborn)
                 > Cardinality({v \in Workers : pc[v] \in StartPcs \ {"st_wait"}})
            /\ Step(w, "st_set", NoLocal)

start_set(w) ==
    /\ pc[w] = "st_set"
    /\ running' = TRUE
    /\ UNCHANGED <<store, now, caching, thread, started>>
    /\ Step(w, "st_thread", NoLocal)

\* self.thread = threading.Thread(...): a new Thread object, not started
start_thread(w) ==
    /\ pc[w] = "st_thread"
    /\ thread' = thread + 1
    /\ UNCHANGED <<store, now, caching, running, started>>
    /\ Step(w, "st_start", NoLocal)

\* self.thread.start(), on the object that self.thread names by now: the test
\* that the object was not started before, which raises when it was
start_thread_start(w) ==
    /\ pc[w] = "st_start"
    /\ UNCHANGED <<store, now, caching, service>>
    /\ IF thread \in started
       THEN Finish(w, ServiceResp("start", 500))
       ELSE Step(w, "st_spawn", [NoLocal EXCEPT !.object = thread])

\* Thread.start() hands the run of the target to the interpreter
start_thread_spawn(w) ==
    /\ pc[w] = "st_spawn"
    /\ \E t \in Unborn :
          /\ pc' = [pc EXCEPT ![w] = "st_wait", ![t] = "lp_boot"]
          /\ local' = [local EXCEPT ![t] = [NoLocal EXCEPT !.object = local[w].object]]
    /\ UNCHANGED <<store, now, caching, service, log, recording>>

\* the new thread marks its object as started and enters run_hourly_sync. On
\* an object that another run has marked already (two callers passed the test
\* of start() on the same object) it enters the loop as well or ends in the
\* bookkeeping of threading, as the timing has it
run_hourly_sync_bootstrap(t) ==
    /\ pc[t] = "lp_boot"
    /\ started' = started \cup {local[t].object}
    /\ UNCHANGED <<store, now, caching, running, thread>>
    /\ \E enters \in BOOLEAN :
          /\ local[t].object \notin started => enters
          /\ Step(t, IF enters THEN "lp_while" ELSE "lp_exit", NoLocal)

\* Thread.start() returns to its caller once the object is marked as started
start_thread_wait(w) ==
    /\ pc[w] = "st_wait"
    /\ local[w].object \in started
    /\ UNCHANGED <<store, now, caching, service>>
    /\ Finish(w, ServiceResp("start", 200))

\* self.running = False
stop(w) ==
    /\ pc[w] = "idle"
    /\ running' = FALSE
    /\ UNCHANGED <<store, now, caching, thread, started>>
    /\ Step(w, "sp_join", NoLocal)

\* if self.thread: self.thread.join(timeout=5). The join returns, the thread
\* ended or not; on a Thread that was not started it raises
stop_join(w) ==
    /\ pc[w] = "sp_join"
    /\ UNCHANGED <<store, now, caching, service>>
    /\ Finish(w, ServiceResp("stop", IF thread # 0 /\ thread \notin started THEN 500 ELSE 200))

\* while self.running, and the call of time.sleep(3600)
run_hourly_sync(t) ==
    /\ pc[t] = "lp_while"
    /\ UNCHANGED <<store, now, caching, service>>
    /\ IF running
       THEN Step(t, "lp_sleep", [NoLocal EXCEPT !.until = now + 3600])
       ELSE Step(t, "lp_exit", NoLocal)

\* time.sleep(3600) returns, 3600 s after its call
run_hourly_sync_sleep(t) ==
    /\ pc[t] = "lp_sleep"
    /\ local[t].until <= MaxNow
    /\ now' = Later(now, local[t].until)
    /\ UNCHANGED <<store, caching, service>>
    /\ Step(t, "lp_check", NoLocal)

\* if self.running, after the sleep
run_hourly_sync_check(t) ==
    /\ pc[t] = "lp_check"
    /\ UNCHANGED <<store, now, caching, service>>
    /\ Step(t, IF running THEN "lp_call" ELSE "lp_while", NoLocal)

\* a time t moved back by an hour; the times before the new origin stand at 0
Earlier(t) == IF t = NoSync THEN NoSync ELSE Later(0, t - 3600)

\* The clock of a loop that goes on for ever is kept below MaxNow by moving the
\* origin of time: when a sleep is to end after MaxNow, every time of the state
\* is moved back by an hour. No step of the program: the ages that the program
\* tests (3600 s in get_glyph, 7200 s in the sweep) are the same before and
\* after, a time that stands at 0 being older than both on either side.
Rebase ==
    /\ \E t \in Threads : pc[t] = "lp_sleep" /\ local[t].until > MaxNow
    /\ now' = now - 3600
    /\ glyphs' = [g \in DOMAIN glyphs |->
                    [glyphs[g] EXCEPT !.lastCountSync = Earlier(@)]]
    /\ local' = [w \in DOMAIN local |-> [local[w] EXCEPT !.until = Earlier(@)]]
    /\ log' = [i \in DOMAIN log |-> [log[i] EXCEPT !.at = Earlier(@)]]
    /\ cache_timestamps' = [k \in DOMAIN cache_timestamps |-> Earlier(cache_timestamps[k])]
    /\ UNCHANGED <<glyphViews, likes, glyphDownloads, created, users, pc, recording, cache,
                   service>>

----------------------------------------------------------------------------
(* DatabaseCache (database.py): the in-memory cache, every method under its lock *)

ttl_settings ==
    [glyph_counts |-> 300, glyph_data |-> 600, user_data |-> 1800, admin_stats |-> 120,
     popular_glyphs |-> 900]

DefaultTTL == 300

\* the number of documents _fetch_counts_batch reads with one get_all
ReadBatchSize == 10

CacheTypes == DOMAIN ttl_settings \cup {"default"}

ttl(cache_type) ==
    IF cache_type \in DOMAIN ttl_settings THEN ttl_settings[cache_type] ELSE DefaultTTL

\* Python's None
None == [none |-> TRUE]

\* the key f"{prefix}{id}", kept in its two parts
CacheKey(prefix, id) == [prefix |-> prefix, id |-> id]

\* 'pattern in key' for the one pattern in use, "popular_glyphs": no glyph id of
\* the model contains it, so it matches the keys that begin with it
Matches(pattern, key) == pattern = "popular_glyphs" /\ key.prefix = "popular_glyphs_"

\* _is_expired that lets an entry of exactly ttl seconds expire
is_expired_inclusive(key, cache_type) ==
    IF key \notin DOMAIN cache_timestamps THEN TRUE
    ELSE now - cache_timestamps[key] >= ttl(cache_type)

is_expired(key, cache_type) ==
    IF key \notin DOMAIN cache_timestamps THEN TRUE
    ELSE now - cache_timestamps[key] > ttl(cache_type)

CacheGet(key, cache_type) ==
    IF key \in DOMAIN cache /\ ~is_expired(key, cache_type) THEN cache[key] ELSE None

CacheSet(key, value) ==
    /\ cache' = [k \in DOMAIN cache \cup {key} |-> IF k = key THEN value ELSE cache[k]]
    /\ cache_timestamps' = [k \in DOMAIN cache_timestamps \cup {key} |->
                                IF k = key THEN now ELSE cache_timestamps[k]]

CacheDrop(keys) ==
    /\ cache' = [k \in DOMAIN cache \ keys |-> cache[k]]
    /\ cache_timestamps' = [k \in DOMAIN cache_timestamps \ keys |-> cache_timestamps[k]]

CacheResp(op, key, cache_type, value) ==
    [NoResp EXCEPT !.op = op, !.status = 200, !.key = key, !.cache_type = cache_type,
                   !.value = value]

cache_get(w, key, cache_type) ==
    /\ pc[w] = "idle"
    /\ UNCHANGED <<store, now, caching, service>>
    /\ Finish(w, CacheResp("cache_get", key, cache_type, CacheGet(key, cache_type)))

cache_set(w, key, value, cache_type) ==
    /\ pc[w] = "idle"
    /\ CacheSet(key, value)
    /\ UNCHANGED <<store, now, service>>
    /\ Finish(w, CacheResp("cache_set", key, cache_type, value))

cache_delete(w, key) ==
    /\ pc[w] = "idle"
    /\ CacheDrop({key})
    /\ UNCHANGED <<store, now, service>>
    /\ Finish(w, CacheResp("cache_delete", key, "", None))

clear_pattern(w, pattern) ==
    /\ pc[w] = "idle"
    /\ CacheDrop({k \in DOMAIN cache : Matches(pattern, k)})
    /\ UNCHANGED <<store, now, service>>
    /\ Finish(w, CacheResp("clear_pattern", CacheKey(pattern, ""), "", None))

\* the instants at which the cache is looked at: the start, and for every ttl
\* the second it runs out and the second after
Instants == {0, 1} \cup {ttl(c) : c \in CacheTypes} \cup {ttl(c) + 1 : c \in CacheTypes}

\* the clock moves on to a later instant, as long as a call can still follow
CacheTick ==
    /\ recording = "all" => Len(log) < MaxCalls
    /\ \E t \in Instants : t > now /\ now' = t
    /\ UNCHANGED <<store, pc, local, log, recording, caching, service>>

(* The same four methods statement by statement, as threads run them side by
   side. cache_lock is held by the thread that is inside a with-block. *)

LockedPcs ==
    {"cg_read", "cs_value", "cs_stamp", "cd_value", "cd_stamp", "cp_value", "cp_stamp"}

\* the thread that holds cache_lock, 0 when it is free
cache_lock ==
    IF \E w \in DOMAIN pc : pc[w] \in LockedPcs
    THEN CHOOSE w \in DOMAIN pc : pc[w] \in LockedPcs
    ELSE 0

\* 'with self.cache_lock:' entered by a thread that does not hold the lock
Acquire(w) == \A v \in DOMAIN pc \ {w} : pc[v] \notin LockedPcs

CacheGoto(w, label, l) == Step(w, label, l) /\ UNCHANGED <<store, now, service>>

cache_get_lock(w, key, cache_type) ==
    /\ pc[w] = "idle"
    /\ Acquire(w)
    /\ UNCHANGED caching
    /\ CacheGoto(w, "cg_read", [NoLocal EXCEPT !.key = key, !.cache_type = cache_type])

cache_get_read(w) ==
    /\ pc[w] = "cg_read"
    /\ UNCHANGED <<store, now, caching, service>>
    /\ LET l == local[w]
       IN Finish(w, CacheResp("cache_get", l.key, l.cache_type, CacheGet(l.key, l.cache_type)))

cache_set_lock(w, key, value, cache_type) ==
    /\ pc[w] = "idle"
    /\ Acquire(w)
    /\ UNCHANGED caching
    /\ CacheGoto(w, "cs_value", [NoLocal EXCEPT !.key = key, !.value = value,
                                                !.cache_type = cache_type])

cache_set_value(w) ==
    /\ pc[w] = "cs_value"
    /\ LET l == local[w]
       IN cache' = [k \in DOMAIN cache \cup {l.key} |-> IF k = l.key THEN l.value ELSE cache[k]]
    /\ UNCHANGED cache_timestamps
    /\ CacheGoto(w, "cs_stamp", local[w])

cache_set_stamp(w) ==
    /\ pc[w] = "cs_stamp"
    /\ LET l == local[w]
       IN /\ cache_timestamps' = [k \in DOMAIN cache_timestamps \cup {l.key} |->
                                     IF k = l.key THEN now ELSE cache_timestamps[k]]
          /\ Finish(w, CacheResp("cache_set", l.key, l.cache_type, l.value))
    /\ UNCHANGED <<store, now, service, cache>>

\* delete that does not take the lock
cache_delete_unlocked(w, key) ==
    /\ pc[w] = "idle"
    /\ UNCHANGED caching
    /\ CacheGoto(w, "cd_value", [NoLocal EXCEPT !.key = key])

cache_delete_lock(w, key) ==
    /\ pc[w] = "idle"
    /\ Acquire(w)
    /\ UNCHANGED caching
    /\ CacheGoto(w, "cd_value", [NoLocal EXCEPT !.key = key])

cache_delete_value(w) ==
    /\ pc[w] = "cd_value"
    /\ cache' = [k \in DOMAIN cache \ {local[w].key} |-> cache[k]]
    /\ UNCHANGED cache_timestamps
    /\ CacheGoto(w, "cd_stamp", local[w])

cache_delete_stamp(w) ==
    /\ pc[w] = "cd_stamp"
    /\ cache_timestamps' = [k \in DOMAIN cache_timestamps \ {local[w].key} |->
                                cache_timestamps[k]]
    /\ UNCHANGED <<store, now, service, cache>>
    /\ Finish(w, CacheResp("cache_delete", local[w].key, "", None))

\* the list of matching keys is made first; with none the method is over
clear_pattern_lock(w, pattern) ==
    /\ pc[w] = "idle"
    /\ Acquire(w)
    /\ UNCHANGED <<store, now, caching, service>>
    /\ LET keys_to_delete == {k \in DOMAIN cache : Matches(pattern, k)}
       IN IF keys_to_delete = {}
          THEN Finish(w, CacheResp("clear_pattern", CacheKey(pattern, ""), "", None))
          ELSE Step(w, "cp_value", [NoLocal EXCEPT !.key = CacheKey(pattern, ""),
                                                   !.keys_to_delete = keys_to_delete])

clear_pattern_value(w) ==
    /\ pc[w] = "cp_value"
    /\ \E key \in local[w].keys_to_delete :
          /\ cache' = [k \in DOMAIN cache \ {key} |-> cache[k]]
          /\ CacheGoto(w, "cp_stamp", [local[w] EXCEPT !.value = key])
    /\ UNCHANGED cache_timestamps

clear_pattern_stamp(w) ==
    /\ pc[w] = "cp_stamp"
    /\ UNCHANGED <<store, now, service, cache>>
    /\ LET l == local[w]
           key == l.value
       IN /\ cache_timestamps' = [k \in DOMAIN cache_timestamps \ {key} |-> cache_timestamps[k]]
          /\ IF l.keys_to_delete = {key}
             THEN Finish(w, CacheResp("clear_pattern", l.key, "", None))
             ELSE Step(w, "cp_value", [l EXCEPT !.keys_to_delete = @ \ {key}])

----------------------------------------------------------------------------
(* ReadOptimizer and BatchQueryOptimizer (database.py): reads through the cache.
   A cached glyph is kept by its three counters. *)

CountsOf(v, l, d) == [views |-> v, likes |-> l, downloads |-> d]

DocCounts(doc) == CountsOf(doc.views, doc.likes, doc.downloads)

ReadResp(op, glyph_id, value) ==
    [NoResp EXCEPT !.op = op, !.g = glyph_id, !.status = 200, !.value = value]

\* get_cached_glyph: the cached value if there is one, else on to the store
get_cached_glyph(w, glyph_id) ==
    /\ pc[w] = "idle"
    /\ Acquire(w)
    /\ UNCHANGED <<store, now, caching, service>>
    /\ LET cached == CacheGet(CacheKey("glyph_", glyph_id), "glyph_data")
       IN IF cached # None
          THEN Finish(w, ReadResp("get_cached_glyph", glyph_id, cached))
          ELSE Step(w, "cg_fetch", [NoLocal EXCEPT !.g = glyph_id])

\* the read of the document: None when it raises or finds nothing, else on to
\* the cache with what was read
get_cached_glyph_fetch(w, fails) ==
    /\ pc[w] = "cg_fetch"
    /\ UNCHANGED <<store, now, caching, service>>
    /\ LET glyph_id == local[w].g
           doc == IF glyph_id \in DOMAIN glyphs THEN glyphs[glyph_id] ELSE NoDoc
       IN IF fails \/ ~doc.exists
          THEN Finish(w, ReadResp("get_cached_glyph", glyph_id, None))
          ELSE Step(w, "cg_set", [local[w] EXCEPT !.value = DocCounts(doc)])

\* db_cache.set of what was read, which is the answer
get_cached_glyph_set(w) ==
    /\ pc[w] = "cg_set"
    /\ Acquire(w)
    /\ UNCHANGED <<store, now, service>>
    /\ CacheSet(CacheKey("glyph_", local[w].g), local[w].value)
    /\ Finish(w, ReadResp("get_cached_glyph", local[w].g, local[w].value))

\* get_optimized_glyph_counts -> get_glyph_counts_batch: the call, with the ids
\* to look up in the cache one by one
get_optimized_glyph_counts(w, glyph_ids) ==
    /\ pc[w] = "idle"
    /\ UNCHANGED <<store, now, caching, service>>
    /\ IF glyph_ids = <<>>
       THEN Finish(w, ReadResp("get_optimized_glyph_counts", "", <<>>))
       ELSE Step(w, "oc_get", [NoLocal EXCEPT !.glyph_ids = glyph_ids, !.k = 1])

\* db_cache.get of the k-th id: its counts are kept when the cache has them, the
\* id is left for the store when not; after the last id, the answer when nothing
\* is left, else zeros for every id that is left and on to the store
get_optimized_glyph_counts_get(w) ==
    /\ pc[w] = "oc_get"
    /\ Acquire(w)
    /\ UNCHANGED <<store, now, caching, service>>
    /\ LET l == local[w]
           glyph_id == l.glyph_ids[l.k]
           cached == CacheGet(CacheKey("counts_", glyph_id), "glyph_counts")
           cached_counts == IF cached # None
                            THEN [g \in DOMAIN l.cached_counts \cup {glyph_id} |->
                                     IF g = glyph_id THEN cached ELSE l.cached_counts[g]]
                            ELSE l.cached_counts
           uncached_ids == IF cached # None THEN l.uncached_ids
                           ELSE Append(l.uncached_ids, glyph_id)
           looked == [l EXCEPT !.cached_counts = cached_counts,
                               !.uncached_ids = uncached_ids]
       IN IF l.k # Len(l.glyph_ids) THEN Step(w, "oc_get", [looked EXCEPT !.k = @ + 1])
          ELSE IF uncached_ids = <<>>
          THEN Finish(w, ReadResp("get_optimized_glyph_counts", "", cached_counts))
          ELSE Step(w, "oc_fetch",
                    [looked EXCEPT !.k = 1,
                                   !.counts = [g \in Range(uncached_ids) |-> CountsOf(0, 0, 0)]])

\* _fetch_counts_batch: one get_all of the next ReadBatchSize ids, which puts
\* the counters of the documents found in the place of the zeros; a get_all that
\* raises ends the reading with what there is
get_optimized_glyph_counts_fetch(w, fails) ==
    /\ pc[w] = "oc_fetch"
    /\ UNCHANGED <<store, now, caching, service>>
    /\ LET l == local[w]
           last == Min(l.k + ReadBatchSize - 1, Len(l.uncached_ids))
           batch_ids == {l.uncached_ids[i] : i \in l.k..last}
           counts == [g \in DOMAIN l.counts |->
                         IF g \in batch_ids /\ g \in DOMAIN glyphs /\ glyphs[g].exists
                         THEN DocCounts(glyphs[g])
                         ELSE l.counts[g]]
       IN IF fails THEN Step(w, "oc_set", [l EXCEPT !.k = 1])
          ELSE IF last = Len(l.uncached_ids)
          THEN Step(w, "oc_set", [l EXCEPT !.k = 1, !.counts = counts])
          ELSE Step(w, "oc_fetch", [l EXCEPT !.k = last + 1, !.counts = counts])

\* db_cache.set of the counts of the k-th id that was not in the cache, whatever
\* they are; after the last, the answer: the cached counts and the fetched ones
get_optimized_glyph_counts_set(w) ==
    /\ pc[w] = "oc_set"
    /\ Acquire(w)
    /\ UNCHANGED <<store, now, service>>
    /\ LET l == local[w]
           glyph_id == l.uncached_ids[l.k]
       IN /\ CacheSet(CacheKey("counts_", glyph_id), l.counts[glyph_id])
          /\ IF l.k # Len(l.uncached_ids) THEN Step(w, "oc_set", [l EXCEPT !.k = @ + 1])
             ELSE Finish(w, ReadResp("get_optimized_glyph_counts", "",
                                     [g \in DOMAIN l.cached_counts \cup DOMAIN l.counts |->
                                         IF g \in DOMAIN l.counts THEN l.counts[g]
                                         ELSE l.cached_counts[g]]))

\* order_by('downloads', DESCENDING).limit(limit).stream(): the lists of at most
\* limit glyphs with the largest downloads, largest first
PopularLists(limit) ==
    LET n == Min(limit, Len(StreamGlyphs))
    IN {s \in Samples(StreamGlyphs, n) :
          /\ \A i \in 1..(n - 1) : glyphs[s[i]].downloads >= glyphs[s[i + 1]].downloads
          /\ \A g \in Range(StreamGlyphs) \ Range(s) :
                \A i \in 1..n : glyphs[s[i]].downloads >= glyphs[g].downloads}

\* the list as it is cached and answered: each glyph with its id and counters
PopularValue(s) ==
    [list |-> [i \in 1..Len(s) |->
                  [id |-> s[i], views |-> glyphs[s[i]].views, likes |-> glyphs[s[i]].likes,
                   downloads |-> glyphs[s[i]].downloads]]]

\* the limit of get_popular_glyphs_cached when the caller gives none
DefaultLimit == 20

\* 'if cached': a cached list counts when it is not empty
Truthy(value) == value # None /\ ("list" \in DOMAIN value => value.list # <<>>)

\* get_popular_glyphs_cached: the cached list if there is one, else on to the
\* store
get_popular_glyphs_cached(w, limit) ==
    /\ pc[w] = "idle"
    /\ Acquire(w)
    /\ UNCHANGED <<store, now, caching, service>>
    /\ LET cache_key == CacheKey("popular_glyphs_", ToString(limit))
           cached == CacheGet(cache_key, "popular_glyphs")
       IN IF Truthy(cached)
          THEN Finish(w, ReadResp("get_popular_glyphs_cached", "", cached))
          ELSE Step(w, "pg_stream", [NoLocal EXCEPT !.key = cache_key, !.limit = limit])

\* the stream of the glyphs by downloads: the empty list, uncached, when it
\* raises, else on to the cache with the list
get_popular_glyphs_cached_stream(w, fails) ==
    /\ pc[w] = "pg_stream"
    /\ UNCHANGED <<store, now, caching, service>>
    /\ IF fails
       THEN Finish(w, ReadResp("get_popular_glyphs_cached", "", PopularValue(<<>>)))
       ELSE \E s \in PopularLists(local[w].limit) :
               Step(w, "pg_set", [local[w] EXCEPT !.value = PopularValue(s)])

\* db_cache.set of the list, which is the answer
get_popular_glyphs_cached_set(w) ==
    /\ pc[w] = "pg_set"
    /\ Acquire(w)
    /\ UNCHANGED <<store, now, service>>
    /\ CacheSet(local[w].key, local[w].value)
    /\ Finish(w, ReadResp("get_popular_glyphs_cached", "", local[w].value))

\* invalidate_glyph_cache: three calls of the cache, each under the lock by
\* itself. First db_cache.delete of the glyph's data
invalidate_glyph_cache(w, glyph_id) ==
    /\ pc[w] = "idle"
    /\ Acquire(w)
    /\ CacheDrop({CacheKey("glyph_", glyph_id)})
    /\ UNCHANGED <<store, now, service>>
    /\ Step(w, "iv_counts", [NoLocal EXCEPT !.g = glyph_id])

\* then db_cache.delete of the glyph's counts
invalidate_glyph_cache_counts(w) ==
    /\ pc[w] = "iv_counts"
    /\ Acquire(w)
    /\ CacheDrop({CacheKey("counts_", local[w].g)})
    /\ UNCHANGED <<store, now, service>>
    /\ Step(w, "iv_popular", local[w])

\* then db_cache.clear_pattern of the popular lists
invalidate_glyph_cache_popular(w) ==
    /\ pc[w] = "iv_popular"
    /\ Acquire(w)
    /\ CacheDrop({k \in DOMAIN cache : Matches("popular_glyphs", k)})
    /\ UNCHANGED <<store, now, service>>
    /\ Finish(w, ReadResp("invalidate_glyph_cache", local[w].g, None))

----------------------------------------------------------------------------
(* Initial states *)

Quiet(rec) ==
    /\ pc = [w \in Workers |-> "idle"]
    /\ local = [w \in Workers |-> NoLocal]
    /\ log = <<>>
    /\ recording = rec
    /\ now = 0
    /\ cache = <<>> /\ cache_timestamps = <<>>
    /\ running = FALSE /\ thread = 0 /\ started = {}
    /\ users = Profiles

\* the store after the first upload_glyph: one glyph, nothing viewed, liked or
\* downloaded yet; the other ids name no document
InitOne(rec) ==
    /\ glyphs \in {[g \in Glyphs |-> IF g = GlyphId(1) THEN NewGlyph(u) ELSE NoDoc] : u \in Users}
    /\ glyphViews = {} /\ likes = {} /\ glyphDownloads = {}
    /\ created = {g \in DOMAIN glyphs : glyphs[g].exists}
    /\ users = Profiles
    /\ Quiet(rec)

\* a store in which the counters of the first glyph have drifted from its
\* records: nv views, nl likes and nd downloads, each counter within MaxDrift of
\* its count, never reconciled or last swept at time 0; the other glyphs are new
InitDrifted(rec) ==
    /\ \E nv \in 0..NumIPs, nl \in 0..NumUsers, nd \in 0..NumIPs :
          /\ glyphViews = {ViewDoc(Hot, IP(i)) : i \in 1..nv}
          /\ likes = {LikeDoc(Hot, User(i)) : i \in 1..nl}
          /\ glyphDownloads = {DownloadDoc(Hot, IP(i)) : i \in 1..nd}
          /\ \E dv, dl, dd \in (0 - MaxDrift)..MaxDrift, swept \in BOOLEAN :
                glyphs = [g \in Glyphs |->
                            IF g = Hot
                            THEN [NewGlyph(User(1)) EXCEPT
                                    !.views = nv + dv, !.likes = nl + dl,
                                    !.downloads = nd + dd,
                                    !.lastCountSync = IF swept THEN 0 ELSE NoSync,
                                    !.syncType = IF swept THEN "auto_hourly" ELSE ""]
                            ELSE NewGlyph(User(1))]
    /\ created = {g \in DOMAIN glyphs : glyphs[g].exists}
    /\ users = Profiles
    /\ pc = [w \in Workers |-> "idle"]
    /\ local = [w \in Workers |-> NoLocal]
    /\ log = <<>>
    /\ recording = rec
    /\ now \in {0, SweepSyncAge + 1}
    /\ cache = <<>> /\ cache_timestamps = <<>>
    /\ running = FALSE /\ thread = 0 /\ started = {}

\* a store in which the first glyph has a view that its counter has not kept:
\* the counters are 0 and the glyph was never reconciled
InitBehind(rec) ==
    /\ glyphs = [g \in Glyphs |-> IF g = Hot THEN NewGlyph(User(1)) ELSE NoDoc]
    /\ glyphViews = {ViewDoc(Hot, IP(1))}
    /\ likes = {} /\ glyphDownloads = {}
    /\ created = {g \in DOMAIN glyphs : glyphs[g].exists}
    /\ users = Profiles
    /\ Quiet(rec)

\* a catalog of n glyphs
Catalog(n) == {GlyphId(i) : i \in 1..n}

\* the numbers of the glyphs of a catalog of n whose views counter is behind, by
\* pattern: none of them, the first of every chunk of sync_glyph_counts, the
\* last glyph alone, or all of them
Behind(n, pattern) ==
    CASE pattern = "none" -> {}
      [] pattern = "each" -> {i \in 1..n : i % chunk_size = 1}
      [] pattern = "last" -> {n}
      [] OTHER -> 1..n

\* catalogs of one full chunk, of one glyph more, and of the size of the
\* documented example
Catalogs ==
    {<<chunk_size, "all">>, <<chunk_size + 1, "all">>, <<chunk_size + 1, "each">>,
     <<chunk_size + 1, "last">>, <<chunk_size + 1, "none">>, <<ExampleCatalog, "each">>}

\* a catalog of one glyph more than a report samples, and one id without a
\* document
InitReport ==
    /\ \E pattern \in {"all", "each", "last", "none"} :
          glyphViews = {ViewDoc(GlyphId(i), IP(1)) : i \in Behind(MaxSampleUpdates + 1, pattern)}
    /\ glyphs = [g \in Catalog(MaxSampleUpdates + 2) |->
                   IF g = GlyphId(MaxSampleUpdates + 2) THEN NoDoc ELSE NewGlyph(User(1))]
    /\ created = {g \in DOMAIN glyphs : glyphs[g].exists}
    /\ users = Profiles
    /\ likes = {} /\ glyphDownloads = {}
    /\ Quiet("last")

\* a catalog of one glyph more than two sweep batches, two hours and a second
\* after its first reconcile: glyph 3 was reconciled exactly two hours ago,
\* glyphs 1, 2 and the last are either fresh or due (1 and the last never
\* reconciled, 2 reconciled at time 0) with a view their counter has not kept
InitSweep ==
    /\ \E due \in SUBSET {1, 2, 2 * SweepBatchSize + 1} :
          glyphs = [g \in Catalog(2 * SweepBatchSize + 1) |->
                      [NewGlyph(User(1)) EXCEPT
                          !.lastCountSync =
                              CASE g \in {GlyphId(i) : i \in due \ {2}} -> NoSync
                                [] g = GlyphId(2) /\ 2 \in due -> 0
                                [] g = GlyphId(3) -> 1
                                [] OTHER -> SweepSyncAge + 1,
                          !.syncType = IF g \in {GlyphId(i) : i \in due \ {2}}
                                       THEN "" ELSE "auto_hourly"]]
    /\ glyphViews = {ViewDoc(GlyphId(i), IP(1)) : i \in {1, 2, 2 * SweepBatchSize + 1}}
    /\ likes = {} /\ glyphDownloads = {}
    /\ created = {g \in DOMAIN glyphs : glyphs[g].exists}
    /\ users = Profiles
    /\ pc = [w \in Workers |-> "idle"]
    /\ local = [w \in Workers |-> NoLocal]
    /\ log = <<>>
    /\ recording = "last"
    /\ now = SweepSyncAge + 1
    /\ cache = <<>> /\ cache_timestamps = <<>>
    /\ running = FALSE /\ thread = 0 /\ started = {}

\* the service as constructed, no thread created yet, and a glyph that is due
InitService ==
    /\ glyphs = [g \in Glyphs |-> IF g = Hot THEN NewGlyph(User(1)) ELSE NoDoc]
    /\ glyphViews = {ViewDoc(Hot, IP(1))}
    /\ likes = {} /\ glyphDownloads = {}
    /\ created = {g \in DOMAIN glyphs : glyphs[g].exists}
    /\ users = Profiles
    /\ pc = [w \in Workers \cup Threads |-> IF w \in Workers THEN "idle" ELSE "unborn"]
    /\ local = [w \in Workers \cup Threads |-> NoLocal]
    /\ log = <<>>
    /\ recording = "none"
    /\ now = 0
    /\ cache = <<>> /\ cache_timestamps = <<>>
    /\ running = FALSE /\ thread = 0 /\ started = {}

InitChunks ==
    /\ \E c \in Catalogs :
          /\ glyphs = [g \in Catalog(c[1]) |-> NewGlyph(User(1))]
          /\ glyphViews = {ViewDoc(GlyphId(i), IP(1)) : i \in Behind(c[1], c[2])}
          /\ created = {g \in DOMAIN glyphs : glyphs[g].exists}
          /\ users = Profiles
    /\ likes = {} /\ glyphDownloads = {}
    /\ Quiet("last")

----------------------------------------------------------------------------
(* The handlers, step by step *)

GlyphArgs == Glyphs \cup {""}

ViewPath(w) ==
    \/ \E g \in GlyphArgs, ip \in IPs, fails \in BOOLEAN : record_view(w, g, ip, fails)
    \/ \E fails \in BOOLEAN : record_view_commit(w, fails)

DownloadPath(w) ==
    \/ \E g \in GlyphArgs, ip \in IPs, fails \in BOOLEAN : record_download(w, g, ip, fails)
    \/ \E fails \in BOOLEAN : record_download_commit(w, fails)

LikePath(w) ==
    \/ \E g \in GlyphArgs, u \in Users, fails \in BOOLEAN : toggle_like(w, g, u, fails)
    \/ \E fails \in BOOLEAN : toggle_like_commit(w, fails)
    \/ \E fails \in BOOLEAN : toggle_like_read(w, fails)

LazySync(w) ==
    \/ \E g \in Glyphs, fails \in BOOLEAN : get_glyph(w, g, fails)
    \/ get_glyph_views(w)
    \/ get_glyph_likes(w)
    \/ get_glyph_downloads(w)
    \/ get_glyph_error(w)
    \/ \E fails \in BOOLEAN : get_glyph_update(w, fails)

\* the steps of sync_glyph_counts after the call
AdminSteps(w) ==
    \/ \E fails \in BOOLEAN : sync_glyph_counts_select(w, fails)
    \/ sync_glyph_counts_views(w)
    \/ sync_glyph_counts_likes(w)
    \/ sync_glyph_counts_downloads(w)
    \/ sync_glyph_counts_doc(w)
    \/ sync_glyph_counts_error(w)
    \/ \E fails \in BOOLEAN : sync_glyph_counts_commit(w, fails)

AdminSync(w) ==
    \/ \E u \in Callers, g \in GlyphArgs, all \in BOOLEAN, n \in BatchSizes, fails \in BOOLEAN :
          sync_glyph_counts(w, u, g, all, n, fails)
    \/ AdminSteps(w)

Sweep(w) ==
    \/ \E n \in SweepSizes, fails \in BOOLEAN : sync_random_glyphs(w, n, fails)
    \/ sync_random_glyphs_views(w)
    \/ sync_random_glyphs_likes(w)
    \/ sync_random_glyphs_downloads(w)
    \/ sync_random_glyphs_error(w)
    \/ \E fails \in BOOLEAN : sync_random_glyphs_commit(w, fails)

\* no other worker is inside a handler: the calls do not overlap
Alone(w) == \A v \in Workers \ {w} : pc[v] = "idle"

----------------------------------------------------------------------------
(* Spec: the writers and the three reconcile triggers on one glyph, interleaved
   at every store call *)

Next ==
    \E w \in Workers :
        \/ \E fails \in BOOLEAN : record_view(w, Hot, IP(1), fails)
        \/ \E fails \in BOOLEAN : record_view_commit(w, fails)
        \/ \E fails \in BOOLEAN : toggle_like(w, Hot, User(1), fails)
        \/ \E fails \in BOOLEAN : toggle_like_commit(w, fails)
        \/ \E fails \in BOOLEAN : toggle_like_read(w, fails)
        \/ LazySync(w) \/ Sweep(w)
        \/ \E u \in Callers, fails \in BOOLEAN :
              sync_glyph_counts(w, u, Hot, FALSE, DefaultBatchSize, fails)
        \/ AdminSteps(w)

Spec == InitOne("none") /\ [][Next]_vars

(* SpecViews: record_view and record_download, one call after another, every
   response kept *)

ViewsNext == ViewPath(1) \/ DownloadPath(1)

SpecViews == InitOne("all") /\ [][ViewsNext]_vars

(* SpecLikes: toggle_like, one call after another, every response kept *)

LikesNext == LikePath(1)

SpecLikes == InitOne("all") /\ [][LikesNext]_vars

(* SpecWrite: the three writers, one call after another, the last response kept *)

WriteNext == ViewPath(1) \/ DownloadPath(1) \/ LikePath(1)

SpecWrite == InitOne("last") /\ [][WriteNext]_vars

(* SpecRace: record_view and record_download calls interleaved, every response
   kept *)

RaceNext ==
    \E w \in Workers : ViewPath(w) \/ DownloadPath(w)

SpecRace == InitOne("all") /\ [][RaceNext]_vars

(* SpecStamp: record_view calls interleaved with get_glyph *)

StampNext ==
    \E w \in Workers :
        \/ \E fails \in BOOLEAN : record_view(w, Hot, IP(1), fails)
        \/ \E fails \in BOOLEAN : record_view_commit(w, fails)
        \/ LazySync(w)

SpecStamp == InitOne("none") /\ [][StampNext]_vars

(* SpecRec: the three reconcile triggers, one call after another, on a store
   whose counters have drifted *)

RecNext == LazySync(1) \/ AdminSync(1) \/ Sweep(1)

SpecRec == InitDrifted("none") /\ [][RecNext]_vars

(* SpecLazy: get_glyph, one call after another, between record_view calls and
   the passing of time *)

LazyNext ==
    \/ LazySync(1)
    \/ \E fails \in BOOLEAN : record_view(1, Hot, IP(1), fails)
    \/ \E fails \in BOOLEAN : record_view_commit(1, fails)
    \/ Tick

SpecLazy == InitOne("last") /\ [][LazyNext]_vars

(* LiveSpec: toggle_like calls interleaved with get_glyph and sync_glyph_counts
   on one glyph; every handler that has started goes on to its end, reconciles
   are started again and again, and a count or a commit that is tried again and again
   succeeds in the end *)

LiveNext ==
    \E w \in Workers :
        \/ \E fails \in BOOLEAN : toggle_like(w, Hot, User(1), fails)
        \/ \E fails \in BOOLEAN : toggle_like_commit(w, fails)
        \/ \E fails \in BOOLEAN : toggle_like_read(w, fails)
        \/ \E fails \in BOOLEAN : get_glyph(w, Hot, fails)
        \/ get_glyph_views(w)
        \/ get_glyph_likes(w)
        \/ get_glyph_downloads(w)
        \/ get_glyph_error(w)
        \/ \E fails \in BOOLEAN : get_glyph_update(w, fails)
        \/ \E u \in Callers, fails \in BOOLEAN :
              sync_glyph_counts(w, u, Hot, FALSE, DefaultBatchSize, fails)
        \/ \E fails \in BOOLEAN : sync_glyph_counts_select(w, fails)
        \/ sync_glyph_counts_views(w)
        \/ sync_glyph_counts_likes(w)
        \/ sync_glyph_counts_downloads(w)
        \/ sync_glyph_counts_doc(w)
        \/ sync_glyph_counts_error(w)
        \/ \E fails \in BOOLEAN : sync_glyph_counts_commit(w, fails)
        \/ \E fails \in BOOLEAN : sync_random_glyphs(w, SweepBatchSize, fails)
        \/ sync_random_glyphs_views(w)
        \/ sync_random_glyphs_likes(w)
        \/ sync_random_glyphs_downloads(w)
        \/ sync_random_glyphs_error(w)
        \/ \E fails \in BOOLEAN : sync_random_glyphs_commit(w, fails)

\* the next step of the handler that w is in
Continue(w) == pc[w] # "idle" /\ LiveNext /\ pc'[w] # pc[w]

LiveFairness ==
    /\ \A w \in Workers : WF_vars(Continue(w))
    /\ SF_vars(\E w \in Workers :
                  sync_glyph_counts(w, SuperAdmin, Hot, FALSE, DefaultBatchSize, FALSE))
    /\ SF_vars(\E w \in Workers : sync_glyph_counts_views(w))
    /\ SF_vars(\E w \in Workers : sync_glyph_counts_likes(w))
    /\ SF_vars(\E w \in Workers : sync_glyph_counts_downloads(w))
    /\ SF_vars(\E w \in Workers : sync_glyph_counts_doc(w))
    /\ SF_vars(\E w \in Workers : sync_glyph_counts_commit(w, FALSE))

LiveSpec == InitOne("none") /\ [][LiveNext]_vars /\ LiveFairness

(* SpecCache: set, get, delete and clear_pattern on the cache, one call after
   another, as time passes; every response kept *)

CacheValues == {CountsOf(0, 0, 0), CountsOf(1, 0, 0)}

CacheNext ==
    \/ \E c \in CacheTypes : cache_get(1, CacheKey("popular_glyphs_", "20"), c)
    \/ \E v \in CacheValues : cache_set(1, CacheKey("popular_glyphs_", "20"), v, "popular_glyphs")
    \/ cache_delete(1, CacheKey("popular_glyphs_", "20"))
    \/ clear_pattern(1, "popular_glyphs")
    \/ CacheTick

InitCache == InitOne("all") /\ glyphs[Hot].creatorId = User(1)

SpecCache == InitCache /\ [][CacheNext]_vars

(* SpecOptimizer: reads through the cache and the three reconcile triggers on a
   glyph whose counters are behind, one call after another *)

CachedRead(w) ==
    \/ get_cached_glyph(w, Hot)
    \/ \E fails \in BOOLEAN : get_cached_glyph_fetch(w, fails)
    \/ get_cached_glyph_set(w)
    \/ \E glyph_ids \in {<<Hot>>, <<GlyphId(NumGlyphs), Hot>>} :
          get_optimized_glyph_counts(w, glyph_ids)
    \/ get_optimized_glyph_counts_get(w)
    \/ \E fails \in BOOLEAN : get_optimized_glyph_counts_fetch(w, fails)
    \/ get_optimized_glyph_counts_set(w)
    \/ get_popular_glyphs_cached(w, DefaultLimit)
    \/ \E fails \in BOOLEAN : get_popular_glyphs_cached_stream(w, fails)
    \/ get_popular_glyphs_cached_set(w)

Invalidate(w) ==
    \/ invalidate_glyph_cache(w, Hot)
    \/ invalidate_glyph_cache_counts(w)
    \/ invalidate_glyph_cache_popular(w)

OptimizerNext ==
    \/ CachedRead(1)
    \/ Invalidate(1)
    \/ \E fails \in BOOLEAN : get_glyph(1, Hot, fails)
    \/ get_glyph_views(1) \/ get_glyph_likes(1) \/ get_glyph_downloads(1)
    \/ get_glyph_error(1)
    \/ \E fails \in BOOLEAN : get_glyph_update(1, fails)
    \/ \E u \in Callers, fails \in BOOLEAN :
          sync_glyph_counts(1, u, Hot, FALSE, DefaultBatchSize, fails)
    \/ \E fails \in BOOLEAN : sync_glyph_counts_select(1, fails)
    \/ sync_glyph_counts_views(1) \/ sync_glyph_counts_likes(1)
    \/ sync_glyph_counts_downloads(1) \/ sync_glyph_counts_doc(1)
    \/ sync_glyph_counts_error(1)
    \/ \E fails \in BOOLEAN : sync_glyph_counts_commit(1, fails)
    \/ Sweep(1)
    \/ \E fails \in BOOLEAN : record_view(1, Hot, IP(2), fails)
    \/ \E fails \in BOOLEAN : record_view_commit(1, fails)

SpecOptimizer == InitBehind("last") /\ [][OptimizerNext]_vars

(* SpecChunks: full admin syncs of catalogs of more than one chunk, one call
   after another. The commits of the chunks may fail; the counts of the items
   do not raise here (SpecReport and SpecConfined have the counts that raise) *)

ChunksNext ==
    \/ \E u \in Callers, fails \in BOOLEAN :
          sync_glyph_counts(1, u, "", TRUE, DefaultBatchSize, fails)
    \/ \E fails \in BOOLEAN : sync_glyph_counts_select(1, fails)
    \/ sync_glyph_counts_views(1) \/ sync_glyph_counts_likes(1)
    \/ sync_glyph_counts_downloads(1) \/ sync_glyph_counts_doc(1)
    \/ \E fails \in BOOLEAN : sync_glyph_counts_commit(1, fails)

SpecChunks == InitChunks /\ [][ChunksNext]_vars

(* SpecReport: one admin sync of every kind of selection, with store calls that
   fail *)

ReportNext ==
    \/ \E g \in {"", Hot, GlyphId(MaxSampleUpdates + 2)}, all \in BOOLEAN, n \in BatchSizes :
          log = <<>> /\ \E u \in Callers, fails \in BOOLEAN :
                             sync_glyph_counts(1, u, g, all, n, fails)
    \/ \E fails \in BOOLEAN : sync_glyph_counts_select(1, fails)
    \/ sync_glyph_counts_views(1) \/ sync_glyph_counts_likes(1)
    \/ sync_glyph_counts_downloads(1) \/ sync_glyph_counts_doc(1)
    \/ sync_glyph_counts_error(1)
    \/ \E fails \in BOOLEAN : sync_glyph_counts_commit(1, fails)

SpecReport == InitReport /\ [][ReportNext]_vars

(* SpecSweep: runs of the sweep over a catalog larger than its scan, one after
   another *)

SpecSweep == InitSweep /\ [][Sweep(1)]_vars

(* SpecService: start() and stop() called by the workers in every order and
   overlap, and the loop threads they create. A thread that can take a step
   takes it in the end, and so does a worker inside start() or stop(). *)

RunStarts(t) == \E fails \in BOOLEAN : sync_random_glyphs(t, SweepBatchSize, fails)

LoopStep(t) ==
    \/ run_hourly_sync_bootstrap(t)
    \/ run_hourly_sync(t)
    \/ run_hourly_sync_sleep(t)
    \/ run_hourly_sync_check(t)
    \/ RunStarts(t)
    \/ sync_random_glyphs_views(t)
    \/ sync_random_glyphs_likes(t)
    \/ sync_random_glyphs_downloads(t)
    \/ sync_random_glyphs_error(t)
    \/ \E fails \in BOOLEAN : sync_random_glyphs_commit(t, fails)

CallStep(w) ==
    \/ start_set(w)
    \/ start_thread(w)
    \/ start_thread_start(w)
    \/ start_thread_spawn(w)
    \/ start_thread_wait(w)
    \/ stop_join(w)

ServiceNext ==
    \/ \E w \in Workers : start(w) \/ stop(w) \/ CallStep(w)
    \/ \E t \in Threads : LoopStep(t)
    \/ Rebase

ServiceFairness ==
    /\ \A t \in Threads : WF_vars(LoopStep(t))
    /\ WF_vars(Rebase)
    /\ \A w \in Workers : WF_vars(CallStep(w))

SpecService == InitService /\ [][ServiceNext]_vars /\ ServiceFairness

(* SpecDelete: the three deleting operations on a glyph, interleaved with the
   writers of its records *)

DeleteGlyph(w) ==
    \/ \E u \in Callers, fails \in BOOLEAN : delete_glyph(w, Hot, u, fails)
    \/ \E fails \in BOOLEAN : delete_glyph_admin(w, fails)
    \/ delete_glyph_delete(w)
    \/ delete_glyph_likes(w) \/ delete_glyph_likes_delete(w)
    \/ delete_glyph_views(w) \/ delete_glyph_views_delete(w)
    \/ delete_glyph_downloads(w) \/ delete_glyph_downloads_delete(w)
    \/ delete_glyph_error(w)

AdminDelete(w) ==
    \/ \E uid \in Callers, fails \in BOOLEAN : admin_delete_glyph(w, uid, Hot, fails)
    \/ \E fails \in BOOLEAN : admin_delete_glyph_get(w, fails)
    \/ admin_delete_glyph_delete(w)
    \/ admin_delete_glyph_likes(w) \/ admin_delete_glyph_likes_delete(w)
    \/ admin_delete_glyph_error(w)

DeleteUser(w) ==
    \/ \E u \in Users, fails \in BOOLEAN : delete_user_data(w, u, fails)
    \/ \E fails \in BOOLEAN : delete_user_data_likes(w, fails)
    \/ \E fails \in BOOLEAN : delete_user_data_commit(w, fails)

DeleteNext ==
    \E w \in Workers :
        \/ DeleteGlyph(w) \/ AdminDelete(w) \/ DeleteUser(w)
        \/ \E fails \in BOOLEAN : record_view(w, Hot, IP(1), fails)
        \/ \E fails \in BOOLEAN : record_view_commit(w, fails)
        \/ \E fails \in BOOLEAN : record_download(w, Hot, IP(1), fails)
        \/ \E fails \in BOOLEAN : record_download_commit(w, fails)
        \/ \E u \in Users, fails \in BOOLEAN : toggle_like(w, Hot, u, fails)
        \/ \E fails \in BOOLEAN : toggle_like_commit(w, fails)
        \/ \E fails \in BOOLEAN : toggle_like_read(w, fails)

SpecDelete == InitOne("none") /\ [][DeleteNext]_vars

(* SpecOverlap: one worker on the write path of a glyph, the other reconciling
   the glyph, interleaved at every store call *)

OverlapNext ==
    \/ \E fails \in BOOLEAN : record_view(1, Hot, IP(1), fails)
    \/ \E fails \in BOOLEAN : record_view_commit(1, fails)
    \/ \E fails \in BOOLEAN : toggle_like(1, Hot, User(1), fails)
    \/ \E fails \in BOOLEAN : toggle_like_commit(1, fails)
    \/ \E fails \in BOOLEAN : toggle_like_read(1, fails)
    \/ LazySync(2) \/ AdminSync(2) \/ Sweep(2)

SpecOverlap == InitOne("none") /\ [][OverlapNext]_vars

(* SpecBatch: one admin sync in batch mode, of each batch size, over the
   catalog of SpecSweep; at most one item of the call has a count that raises *)

BatchNext ==
    \/ \E n \in BatchSizes, u \in Callers, fails \in BOOLEAN :
          log = <<>> /\ sync_glyph_counts(1, u, "", FALSE, n, fails)
    \/ \E fails \in BOOLEAN : sync_glyph_counts_select(1, fails)
    \/ sync_glyph_counts_views(1) \/ sync_glyph_counts_likes(1)
    \/ sync_glyph_counts_downloads(1) \/ sync_glyph_counts_doc(1)
    \/ (local[1].errors = <<>> /\ sync_glyph_counts_error(1))
    \/ \E fails \in BOOLEAN : sync_glyph_counts_commit(1, fails)

SpecBatch == InitSweep /\ [][BatchNext]_vars

(* SpecConfined: one admin sync or one sweep run over a catalog of as many
   glyphs as a report names errors, with store reads that fail *)

InitConfined ==
    /\ \E pattern \in {"all", "each", "last", "none"} :
          glyphViews = {ViewDoc(GlyphId(i), IP(1)) : i \in Behind(MaxSampleErrors, pattern)}
    /\ glyphs = [g \in Catalog(MaxSampleErrors) |-> NewGlyph(User(1))]
    /\ created = {g \in DOMAIN glyphs : glyphs[g].exists}
    /\ users = Profiles
    /\ likes = {} /\ glyphDownloads = {}
    /\ Quiet("last")

ConfinedNext ==
    \/ \E all \in BOOLEAN, n \in BatchSizes, u \in Callers, fails \in BOOLEAN :
          log = <<>> /\ sync_glyph_counts(1, u, "", all, n, fails)
    \/ \E fails \in BOOLEAN : sync_glyph_counts_select(1, fails)
    \/ sync_glyph_counts_views(1) \/ sync_glyph_counts_likes(1)
    \/ sync_glyph_counts_downloads(1) \/ sync_glyph_counts_doc(1)
    \/ sync_glyph_counts_error(1)
    \/ \E fails \in BOOLEAN : sync_glyph_counts_commit(1, fails)
    \/ \E n \in SweepSizes, fails \in BOOLEAN : log = <<>> /\ sync_random_glyphs(1, n, fails)
    \/ sync_random_glyphs_views(1) \/ sync_random_glyphs_likes(1)
    \/ sync_random_glyphs_downloads(1)
    \/ sync_random_glyphs_error(1)
    \/ \E fails \in BOOLEAN : sync_random_glyphs_commit(1, fails)

SpecConfined == InitConfined /\ [][ConfinedNext]_vars

(* SpecEdit: uploads and edits of glyphs, deletes of users and changes of
   isAdmin, among views, likes and lazy reconciles of the first id and runs of
   the migration script, one call after another. The first glyph has any of
   the ids, so that the second stands before or after it. *)

InitEdit ==
    /\ glyphs \in {[g \in Glyphs |-> IF g = h THEN NewGlyph(u) ELSE NoDoc] :
                      h \in Glyphs, u \in Users}
    /\ glyphViews = {} /\ likes = {} /\ glyphDownloads = {}
    /\ created = {g \in DOMAIN glyphs : glyphs[g].exists}
    /\ Quiet("none")

\* the bodies of the uploads: the required keys present or not, and present
\* with an empty text
UploadBodies ==
    {UploadBody(keys) : keys \in {required_fields, {"title"}, {"description"}, {}}}
       \cup {[UploadBody(required_fields) EXCEPT ![f] = ""] : f \in required_fields}

Upload(w) ==
    \/ \E u \in Users, data \in UploadBodies, fails \in BOOLEAN :
          upload_glyph(w, u, data, fails)
    \/ \E fails \in BOOLEAN : upload_glyph_add(w, fails)

Migrate(w) ==
    \/ \E fails \in BOOLEAN : migrate_all_glyph_counts(w, fails)
    \/ migrate_all_glyph_counts_views(w)
    \/ migrate_all_glyph_counts_likes(w)
    \/ migrate_all_glyph_counts_downloads(w)
    \/ migrate_all_glyph_counts_error(w)
    \/ \E fails \in BOOLEAN : migrate_all_glyph_counts_commit(w, fails)

\* the bodies sent to admin_update_user: isAdmin set or cleared, another field
\* it may change, a field it may not, and none
ProfileBodies ==
    {[isAdmin |-> TRUE], [isAdmin |-> FALSE], [username |-> "edited"], [email |-> "edited"],
     [f \in {} |-> ""]}

\* the handlers that write isAdmin, called by anyone for any user
Promote(w) ==
    \/ \E uid \in Callers, u \in Users, fails \in BOOLEAN : make_user_admin(w, uid, u, fails)
    \/ \E fails \in BOOLEAN : make_user_admin_get(w, fails)
    \/ \E fails \in BOOLEAN : make_user_admin_update(w, fails)
    \/ \E uid \in Callers, u \in Users \cup {""}, fails \in BOOLEAN :
          add_admin_by_email(w, uid, IF u = "" THEN "" ELSE UserDoc(u, FALSE).email, fails)
    \/ \E fails \in BOOLEAN : add_admin_by_email_stream(w, fails)
    \/ \E fails \in BOOLEAN : add_admin_by_email_update(w, fails)
    \/ \E uid \in Callers, u \in Users, data \in ProfileBodies, fails \in BOOLEAN :
          admin_update_user(w, uid, u, data, fails)
    \/ \E fails \in BOOLEAN : admin_update_user_update(w, fails)

EditNext ==
    \/ Upload(1)
    \/ \E g \in Glyphs, u \in Callers, keys \in Bodies, fails \in BOOLEAN :
          update_glyph(1, g, u, Body(keys), fails)
    \/ \E fails \in BOOLEAN : update_glyph_admin(1, fails)
    \/ \E fails \in BOOLEAN : update_glyph_update(1, fails)
    \/ DeleteUser(1)
    \/ Promote(1)
    \/ \E fails \in BOOLEAN : record_view(1, Hot, IP(1), fails)
    \/ \E fails \in BOOLEAN : record_view_commit(1, fails)
    \/ \E fails \in BOOLEAN : toggle_like(1, Hot, User(1), fails)
    \/ \E fails \in BOOLEAN : toggle_like_commit(1, fails)
    \/ \E fails \in BOOLEAN : toggle_like_read(1, fails)
    \/ \E fails \in BOOLEAN : get_glyph(1, Hot, fails)
    \/ get_glyph_views(1) \/ get_glyph_likes(1) \/ get_glyph_downloads(1)
    \/ get_glyph_error(1)
    \/ \E fails \in BOOLEAN : get_glyph_update(1, fails)
    \/ Migrate(1)

SpecEdit == InitEdit /\ [][EditNext]_vars

(* SpecCacheThreads: the threads call get, set, delete and clear_pattern on two
   keys at the same time; every response kept, in the order of the returns *)

CacheKeys == {CacheKey("popular_glyphs_", "20"), CacheKey("counts_", Hot)}

CacheThread(w) ==
    \/ \E key \in CacheKeys : cache_get_lock(w, key, "popular_glyphs")
    \/ cache_get_read(w)
    \/ \E key \in CacheKeys : cache_set_lock(w, key, CountsOf(1, 0, 0), "popular_glyphs")
    \/ cache_set_value(w) \/ cache_set_stamp(w)
    \/ \E key \in CacheKeys : cache_delete_lock(w, key)
    \/ cache_delete_value(w) \/ cache_delete_stamp(w)
    \/ clear_pattern_lock(w, "popular_glyphs")
    \/ clear_pattern_value(w) \/ clear_pattern_stamp(w)

CacheThreadsNext == \E w \in Workers : CacheThread(w)

SpecCacheThreads == InitCache /\ [][CacheThreadsNext]_vars

(* SpecSweepLive: the loop of the service, started and never stopped, over a
   catalog of one glyph more than the sweep scans. The loop calls the sweep
   with batch size LiveBatchSize in place of 100, which keeps the catalog small;
   no store call fails. The loop thread goes on whenever it can, and so does
   the moving of the origin of time. *)

LiveThread == NumWorkers + 1

\* the service some time after start(): the loop is at the test of its flag;
\* each glyph is either never reconciled or reconciled just now, with a view
\* that its counter has not kept
InitSweepLive ==
    /\ \E due \in SUBSET (1..(2 * LiveBatchSize + 1)) :
          glyphs = [g \in Catalog(2 * LiveBatchSize + 1) |->
                      IF g \in {GlyphId(i) : i \in due}
                      THEN NewGlyph(User(1))
                      ELSE [NewGlyph(User(1)) EXCEPT !.lastCountSync = 0,
                                                     !.syncType = "auto_hourly"]]
    /\ glyphViews = {ViewDoc(g, IP(1)) : g \in Catalog(2 * LiveBatchSize + 1)}
    /\ likes = {} /\ glyphDownloads = {}
    /\ created = {g \in DOMAIN glyphs : glyphs[g].exists}
    /\ users = Profiles
    /\ pc = [w \in Workers \cup Threads |->
                IF w \in Workers THEN "idle" ELSE IF w = LiveThread THEN "lp_while" ELSE "unborn"]
    /\ local = [w \in Workers \cup Threads |-> NoLocal]
    /\ log = <<>>
    /\ recording = "none"
    /\ now = 0
    /\ cache = <<>> /\ cache_timestamps = <<>>
    /\ running = TRUE /\ thread = 1 /\ started = {1}

SweepLoop(t) ==
    \/ run_hourly_sync(t)
    \/ run_hourly_sync_sleep(t)
    \/ run_hourly_sync_check(t)
    \/ sync_random_glyphs(t, LiveBatchSize, FALSE)
    \/ sync_random_glyphs_views(t)
    \/ sync_random_glyphs_likes(t)
    \/ sync_random_glyphs_downloads(t)
    \/ sync_random_glyphs_commit(t, FALSE)

SweepLiveNext == SweepLoop(LiveThread) \/ Rebase

SweepFairness == WF_vars(SweepLoop(LiveThread)) /\ WF_vars(Rebase)

SpecSweepLive == InitSweepLive /\ [][SweepLiveNext]_vars /\ SweepFairness

----------------------------------------------------------------------------
(* Properties *)

Last(s) == s[Len(s)]

\* the successful calls of op on (g, a), oldest first
Calls(op, g, a) ==
    SelectSeq(log, LAMBDA r : r.op = op /\ r.g = g /\ r.actor = a /\ r.status = 200)

Called(op, g) == {a \in IPs \cup Users : Len(Calls(op, g, a)) >= 1}

FirstOnly(calls) ==
    Len(calls) >= 1 => calls[1].recorded /\ \A i \in 2..Len(calls) : ~calls[i].recorded

\* C1: however often record_view (record_download) is called for one (glyph, IP),
\* one call after another, the first call answers recorded = true and every
\* later one recorded = false, there is exactly one event document with that key,
\* and the glyph's counter has gone up by one for the key: it equals the number
\* of keys called
C1_Idempotent ==
    /\ \A g \in Glyphs, ip \in IPs :
         /\ FirstOnly(Calls("record_view", g, ip))
         /\ FirstOnly(Calls("record_download", g, ip))
         /\ Len(Calls("record_view", g, ip)) >= 1
               => Cardinality({d \in glyphViews : d.id = DocId(g, ip)}) = 1
         /\ Len(Calls("record_download", g, ip)) >= 1
               => Cardinality({d \in glyphDownloads : d.id = DocId(g, ip)}) = 1
    /\ \A g \in Glyphs :
         glyphs[g].exists =>
            /\ glyphs[g].views = Cardinality(Called("record_view", g))
            /\ glyphs[g].downloads = Cardinality(Called("record_download", g))

C1_Witness ==
    \E g \in Glyphs, ip \in IPs :
        /\ Len(Calls("record_view", g, ip)) >= 3
        /\ glyphs[g].views = 1

\* C2: the same under interleaving: for calls of record_view (record_download)
\* that overlap, at most one event document per key, the counter up by one per
\* key, and one call per key that answers recorded = true
C2_RaceIdempotent ==
    \A g \in Glyphs, ip \in IPs :
        LET views == Calls("record_view", g, ip)
            downloads == Calls("record_download", g, ip)
        IN /\ Cardinality({d \in glyphViews : d.id = DocId(g, ip)}) <= 1
           /\ Cardinality({d \in glyphDownloads : d.id = DocId(g, ip)}) <= 1
           /\ Cardinality({i \in 1..Len(views) : views[i].recorded}) <= 1
           /\ Cardinality({i \in 1..Len(downloads) : downloads[i].recorded}) <= 1
           /\ glyphs[g].exists => /\ glyphs[g].views = CountWhere(glyphViews, g)
                                  /\ glyphs[g].downloads = CountWhere(glyphDownloads, g)

\* the toggle_like responses among the first n of the log that flipped (g, u)
TogglesUpTo(n, g, u) ==
    {i \in 1..n : log[i].op = "toggle_like" /\ log[i].g = g /\ log[i].actor = u
                  /\ log[i].status = 200}

Odd(n) == n % 2 = 1

LikersUpTo(n, g) == {u \in Users : Odd(Cardinality(TogglesUpTo(n, g, u)))}

\* C4: of the toggle_like calls of one user on one glyph that answer with liked
\* and totalLikes, one after another from a store without the like document,
\* the k-th answers liked = (k is odd); after k of them the like document
\* exists iff k is odd and the likes counter is its original value plus
\* k mod 2 (so, over all users, the number of users with an odd number of
\* calls); and the totalLikes of every answer is the counter after that call
C4_ToggleParity ==
    /\ \A g \in Glyphs, u \in Users :
         LET t == Calls("toggle_like", g, u)
         IN /\ \A k \in 1..Len(t) : t[k].liked = Odd(k)
            /\ pc[1] = "idle" => (DocExists(likes, DocId(g, u)) <=> Odd(Len(t)))
    /\ \A g \in Glyphs :
         (pc[1] = "idle" /\ glyphs[g].exists)
            => glyphs[g].likes = Cardinality(LikersUpTo(Len(log), g))
    /\ \A i \in 1..Len(log) :
         (log[i].op = "toggle_like" /\ log[i].status = 200)
            => log[i].totalLikes = Cardinality(LikersUpTo(i, log[i].g))

\* C6: the counters of every glyph are never negative
C6_NonNegative ==
    \A g \in Glyphs : glyphs[g].views >= 0 /\ glyphs[g].likes >= 0 /\ glyphs[g].downloads >= 0

CommitPcs == {"rv_commit", "rd_commit", "tl_commit"}

\* C7: a record_view, record_download or toggle_like whose commit fails, also
\* because the glyph document is missing, answers with a failure and leaves
\* every collection as it was before the call
C7_FailedCommit ==
    [][\A w \in Workers :
          /\ (pc[w] = "idle" /\ pc'[w] \in CommitPcs) => UNCHANGED store
          /\ (pc[w] \in CommitPcs /\ pc'[w] = "idle" /\ Last(log').status = 500)
                => UNCHANGED store
          /\ (pc[w] \in CommitPcs /\ ~glyphs[local[w].g].exists /\ pc'[w] # pc[w])
                => (pc'[w] = "idle" /\ Last(log').status = 500)]_vars

C7_Witness ==
    /\ log # <<>>
    /\ Last(log).op = "toggle_like" /\ Last(log).status = 500
    /\ glyphs[Last(log).g].exists
    /\ DocExists(likes, DocId(Last(log).g, Last(log).actor))

\* C8: when get_glyph reconciles a glyph whose counters, as it read them, equal
\* the counts, its update sets lastCountSync and syncType and no other field:
\* views, likes and downloads keep whatever value the document has by then
C8_NoChangeStamp ==
    [][\A w \in Workers :
          (/\ pc[w] = "gg_update" /\ pc'[w] = "idle"
           /\ glyphs' # glyphs
           /\ ~Differs(local[w].glyph_data, local[w].views_count, local[w].likes_count,
                       local[w].downloads_count))
          => glyphs' = [glyphs EXCEPT ![local[w].g].lastCountSync = now,
                                      ![local[w].g].syncType = "auto_detail_page_no_change"]]_vars

C8_Witness ==
    \E g \in Glyphs :
        /\ glyphs[g].syncType = "auto_detail_page_no_change"
        /\ glyphs[g].lastCountSync = now
        /\ glyphs[g].views > 0

\* the counters of g equal the numbers of its records
Consistent(g) ==
    /\ glyphs[g].views = CountWhere(glyphViews, g)
    /\ glyphs[g].likes = CountWhere(likes, g)
    /\ glyphs[g].downloads = CountWhere(glyphDownloads, g)

LazyTags == {"auto_detail_page", "auto_detail_page_no_change"}

\* the step in which w's get_glyph has written g
LazyDone(w, g) ==
    /\ pc[w] = "gg_update" /\ pc'[w] = "idle" /\ local[w].g = g
    /\ glyphs'[g].lastCountSync = now /\ glyphs'[g].syncType \in LazyTags

\* the step in which w's sync_glyph_counts ends with every staged write
\* committed: the commit of its last chunk, or the look at its last document
\* with nothing staged
AdminDone(w) ==
    /\ pc'[w] = "idle"
    /\ \/ pc[w] = "sg_doc" /\ sync_glyph_counts_doc(w)
       \/ pc[w] = "sg_commit" /\ glyphs' # glyphs

\* the step in which w's sync_random_glyphs commits
SweepDone(w) == pc[w] = "sw_commit" /\ pc'[w] = "idle" /\ glyphs' # glyphs

\* g is among the glyphs of w's run and was not given up for a store call that
\* raised: the run has reconciled it
Reconciled(w, g) == g \in Range(local[w].glyph_ids) \ Range(local[w].errors)

\* C3: whatever the counters of an existing glyph were, when a reconcile of it
\* that nothing overlaps completes (get_glyph on a stale glyph, sync_glyph_counts
\* or sync_random_glyphs), its views, likes and downloads counters equal the
\* numbers of its view, like and download records
C3_Reconcile ==
    [][\A w \in Workers, g \in Glyphs :
          /\ LazyDone(w, g) => Consistent(g)'
          /\ (AdminDone(w) /\ Reconciled(w, g) /\ glyphs[g].exists)
                => Consistent(g)'
          /\ (SweepDone(w) /\ Reconciled(w, g)) => Consistent(g)']_vars

C3_Witness ==
    /\ pc[1] = "idle"
    /\ glyphs[Hot].syncType = "auto" /\ glyphs[Hot].lastCountSync = SweepSyncAge + 1
    /\ Consistent(Hot)
    /\ glyphs[Hot].views = NumIPs /\ glyphs[Hot].likes = 0 /\ glyphs[Hot].downloads = NumIPs

\* the tag a trigger would leave on a glyph it found unchanged
NoChangeTags ==
    {"admin_no_change", "auto_no_change", "admin_full_no_change", "admin_batch_no_change",
     "auto_hourly_no_change"}

\* C9 as claimed: when sync_glyph_counts or sync_random_glyphs reconciles a glyph
\* whose counters equal its counts, lastCountSync is set to the time of the
\* reconcile, syncType to the no-change form of the trigger's tag, and the
\* counters are not among the fields written
C9_NoChangeStampAll ==
    [][\A w \in Workers, g \in Glyphs :
          ((AdminDone(w) \/ SweepDone(w)) /\ Reconciled(w, g)
            /\ glyphs[g].exists /\ Consistent(g))
          => /\ glyphs'[g].lastCountSync = now
             /\ glyphs'[g].syncType \in NoChangeTags
             /\ ~\E u \in local[w].batch : u.glyphId = g]_vars

\* C9 as amended: for a glyph whose counters equal its counts, sync_glyph_counts
\* writes nothing at all (lastCountSync and syncType stay as they were), and
\* sync_random_glyphs writes the three counters with their unchanged values,
\* lastCountSync with the time of the sweep and syncType 'auto_hourly'
C9_Unchanged ==
    [][\A w \in Workers, g \in Glyphs :
          /\ (AdminDone(w) /\ Reconciled(w, g) /\ glyphs[g].exists
               /\ Consistent(g))
             => /\ glyphs'[g] = glyphs[g]
                /\ ~\E u \in local[w].batch : u.glyphId = g
          /\ (SweepDone(w) /\ Reconciled(w, g) /\ Consistent(g))
             => /\ glyphs'[g] = [glyphs[g] EXCEPT !.lastCountSync = now,
                                                  !.syncType = "auto_hourly"]
                /\ \E u \in local[w].batch :
                      /\ u.glyphId = g
                      /\ u.views = glyphs[g].views /\ u.likes = glyphs[g].likes
                      /\ u.downloads = glyphs[g].downloads]_vars

\* sync_glyph_counts has gone past the first glyph, which the sweep had stamped
\* and whose counters equal its counts, and has staged nothing for it
C9_Witness ==
    /\ pc[1] \in {"sg_views", "sg_likes", "sg_downloads", "sg_doc"}
    /\ local[1].k = 2 /\ local[1].glyph_ids[1] = Hot /\ local[1].batch = {}
    /\ Consistent(Hot) /\ glyphs[Hot].views > 0
    /\ glyphs[Hot].syncType = "auto_hourly" /\ glyphs[Hot].lastCountSync = now

\* C10: get_glyph counts the records of a glyph exactly when the glyph's
\* lastCountSync is missing or more than 3600 seconds before the call; a
\* get_glyph of a glyph stamped at most 3600 seconds before answers at once,
\* without a count and without a write
C10_Staleness ==
    [][\A w \in Workers, g \in Glyphs :
          LET fresh == /\ glyphs[g].lastCountSync # NoSync
                       /\ now - glyphs[g].lastCountSync <= 3600
          IN /\ (pc[w] = "idle" /\ pc'[w] = "gg_views" /\ local'[w].g = g) => ~fresh
             /\ (/\ \A v \in Workers : pc[v] = "idle" /\ pc'[v] = "idle"
                 /\ log' # log
                 /\ Last(log').op = "get_glyph" /\ Last(log').g = g
                 /\ Last(log').status = 200)
                => fresh /\ UNCHANGED store]_vars

\* a get_glyph answered at once exactly 3600 seconds after the stamp, with a
\* view recorded since
C10_Witness ==
    /\ log # <<>> /\ pc[1] = "idle"
    /\ Last(log).op = "get_glyph" /\ Last(log).status = 200 /\ Last(log).views = 1
    /\ glyphs[Last(log).g].lastCountSync # NoSync
    /\ Last(log).at - glyphs[Last(log).g].lastCountSync = 3600

WriterPcs == {"rv_commit", "rd_commit", "tl_commit", "tl_read"}

\* a step of record_view, record_download or toggle_like
WriterStep == \E w \in Workers : pc[w] \in WriterPcs \/ pc'[w] \in WriterPcs

\* C5: if from some time on no record_view, record_download or toggle_like takes
\* a step on a glyph, while reconciles of the glyph keep being started and keep
\* completing, then from some time on the glyph's counters equal the numbers of
\* its records, and stay so
C5_Converges == <>[][~WriterStep]_vars => <>[]Consistent(Hot)

\* the admin reconcile has put right a likes counter that overlapping toggles
\* had driven below zero
C5_Witness ==
    /\ \E w \in Workers : pc[w] = "sg_commit" /\ glyphs[Hot].likes < 0
                          /\ \E u \in local[w].batch : u.likes = CountWhere(likes, Hot)

\* the calls among the first n of the log that set or removed the entry of key
WritesUpTo(n, key) ==
    {j \in 1..n :
        \/ log[j].op \in {"cache_set", "cache_delete"} /\ log[j].key = key
        \/ log[j].op = "clear_pattern" /\ Matches(log[j].key.prefix, key)}

Max(S) == CHOOSE x \in S : \A y \in S : y <= x

\* what the claim has get answer for call i of the log
Cached(i) ==
    LET writes == WritesUpTo(i - 1, log[i].key)
    IN IF writes = {} THEN None
       ELSE LET j == Max(writes)
            IN IF log[j].op = "cache_set" /\ log[i].at - log[j].at <= ttl(log[i].cache_type)
               THEN log[j].value
               ELSE None

\* C11: get(key, category) answers the value of the latest set of the key, if
\* the key was not deleted or cleared since and the set is at most the
\* category's ttl seconds old; later than that, and for a key never set, it
\* answers None
C11_CacheTTL ==
    \A i \in 1..Len(log) : log[i].op = "cache_get" => log[i].value = Cached(i)

\* a value read exactly ttl seconds after its set (300 for the counts)
C11_Witness ==
    \E i, j \in 1..Len(log) :
        /\ j < i /\ log[j].op = "cache_set" /\ log[i].op = "cache_get"
        /\ log[i].key = log[j].key
        /\ log[i].cache_type = "glyph_counts" /\ log[i].at - log[j].at = 300
        /\ log[i].value = log[j].value /\ log[j].at > 0

CountersChange(g) ==
    \/ glyphs'[g].views # glyphs[g].views
    \/ glyphs'[g].likes # glyphs[g].likes
    \/ glyphs'[g].downloads # glyphs[g].downloads

\* C12: when a reconcile (get_glyph, sync_glyph_counts or sync_random_glyphs)
\* has changed the counters of a glyph, the cache has no entry that can be read
\* under 'glyph_<id>' or 'counts_<id>' and no popular list
C12_Invalidated ==
    [][\A w \in Workers, g \in Glyphs :
          ((LazyDone(w, g) \/ AdminDone(w) \/ SweepDone(w)) /\ CountersChange(g))
          => /\ CacheGet(CacheKey("glyph_", g), "glyph_data")' = None
             /\ CacheGet(CacheKey("counts_", g), "glyph_counts")' = None
             /\ \A k \in DOMAIN cache' :
                   Matches("popular_glyphs", k) => CacheGet(k, "popular_glyphs")' = None]_vars

\* C13: when get_glyph has reconciled a stale glyph, the document and the
\* response carry the counts of the records, lastCountSync is the time of the
\* call, and the cache has an entry 'glyph_<id>' with these counters
C13_LazyFillsCache ==
    [][\A w \in Workers, g \in Glyphs :
          (LazyDone(w, g) /\ glyphs'[g].syncType = "auto_detail_page")
          => /\ Consistent(g)' /\ glyphs'[g].lastCountSync = now
             /\ Last(log').views = glyphs'[g].views
             /\ CacheGet(CacheKey("glyph_", g), "glyph_data")' = DocCounts(glyphs'[g])]_vars

\* C14: when the commit of a chunk of sync_glyph_counts fails, the call goes on
\* with the chunks that remain, and when it was the last chunk the caller gets
\* the report (status 200) with the failure among its errors
C14_ChunkFailureIsolated ==
    [][\A w \in Workers :
          (pc[w] = "sg_commit" /\ glyphs' = glyphs)
          => IF local[w].k < Len(local[w].glyph_ids)
             THEN pc'[w] = "sg_views"
             ELSE /\ Last(log').status = 200
                  /\ Last(log').totalChecked = Len(local[w].glyph_ids)
                  /\ Last(log').errors # <<>>]_vars

CeilDiv(a, b) == (a + b - 1) \div b

\* the grouped write that w is about to issue holds operations only for glyphs
\* whose stored counters differ from the counts of their records
OnlyChanged(w) ==
    \A op \in local[w].batch :
        Differs(glyphs[op.glyphId], op.views, op.likes, op.downloads)

\* C19 as stated: a full admin sync of N glyphs reports totalChecked = N and
\* issues at most ceil(N/500) grouped writes of at most 500 operations each,
\* only for changed glyphs
C19_WritesOf500 ==
    \A w \in Workers :
        /\ (pc[w] = "sg_commit" /\ local[w].sync_all)
           => /\ local[w].commits + 1 <= CeilDiv(Len(local[w].glyph_ids), MaxBatchSize)
              /\ Cardinality(local[w].batch) <= MaxBatchSize
              /\ OnlyChanged(w)
        /\ (pc[w] = "idle" /\ log # <<>> /\ Last(log).status = 200)
           => Last(log).totalChecked = Cardinality(DOMAIN glyphs)

\* every chunk up to the one of item k has an item among the updates of w
EveryChunkChanged(w) ==
    \A c \in 1..CeilDiv(local[w].k, chunk_size) :
        \E i \in 1..Len(local[w].updates) :
            \E j \in ((c - 1) * chunk_size + 1)..Min(c * chunk_size, local[w].k) :
                local[w].glyph_ids[j] = local[w].updates[i].glyphId

\* C19: a full admin sync of N glyphs reports totalChecked = N and issues at
\* most ceil(N/100) grouped writes of at most 100 operations each, only for
\* changed glyphs; with a changed glyph in every chunk the write after item k
\* is write number ceil(k/100), so that N = 1200 makes exactly 12
C19_WritesOf100 ==
    \A w \in Workers :
        /\ (pc[w] = "sg_commit" /\ local[w].sync_all)
           => /\ local[w].commits + 1 <= CeilDiv(Len(local[w].glyph_ids), chunk_size)
              /\ Cardinality(local[w].batch) <= chunk_size
              /\ OnlyChanged(w)
              /\ EveryChunkChanged(w)
                  => local[w].commits + 1 = CeilDiv(local[w].k, chunk_size)
        /\ (pc[w] = "idle" /\ log # <<>> /\ Last(log).status = 200)
           => Last(log).totalChecked = Cardinality(DOMAIN glyphs)

\* the second write of a full sync of a catalog of one glyph more than a chunk,
\* where a single write of 500 operations would have done
C19_Witness ==
    \E w \in Workers :
        /\ pc[w] = "sg_commit" /\ local[w].sync_all
        /\ Len(local[w].glyph_ids) = chunk_size + 1
        /\ local[w].k = chunk_size + 1
        /\ local[w].commits + 1 = CeilDiv(chunk_size + 1, chunk_size)
        /\ local[w].commits + 1 > CeilDiv(chunk_size + 1, MaxBatchSize)

\* the glyphs among ids whose counters differ from their records before the
\* step and equal them after it
Corrected(ids) ==
    {g \in Range(ids) : glyphs[g].exists /\ ~Consistent(g) /\ Consistent(g)'}

\* C20: the report of sync_glyph_counts has totalChecked = the number of ids
\* selected, syncedCount = the number of selected glyphs whose counters
\* differed from the records and were corrected by the committed write, at
\* most 5 sampleUpdates, each with the counters before and after, and at most
\* 3 errors
C20_Report ==
    [][\A w \in Workers :
          (pc[w] # "idle" /\ pc'[w] = "idle" /\ Last(log').op = "sync_glyph_counts"
           /\ Last(log').status = 200)
          => LET r == Last(log')
             IN /\ r.totalChecked = Len(local[w].glyph_ids)
                /\ r.syncedCount = Cardinality(Corrected(local[w].glyph_ids))
                /\ Len(r.sampleUpdates) <= MaxSampleUpdates
                /\ Len(r.sampleUpdates) = Min(r.syncedCount, MaxSampleUpdates)
                /\ \A i \in 1..Len(r.sampleUpdates) :
                      LET u == r.sampleUpdates[i]
                      IN /\ u.glyphId \in Corrected(local[w].glyph_ids)
                         /\ u.old = <<glyphs[u.glyphId].views, glyphs[u.glyphId].likes,
                                      glyphs[u.glyphId].downloads>>
                         /\ u.new = <<glyphs'[u.glyphId].views, glyphs'[u.glyphId].likes,
                                      glyphs'[u.glyphId].downloads>>
                /\ Len(r.errors) <= MaxSampleErrors]_vars

\* a report of more corrections than it samples
C20_Witness ==
    /\ log # <<>> /\ Last(log).op = "sync_glyph_counts" /\ Last(log).status = 200
    /\ Last(log).totalChecked = MaxSampleUpdates + 1
    /\ Last(log).syncedCount = MaxSampleUpdates + 1
    /\ Len(Last(log).sampleUpdates) = MaxSampleUpdates

\* the glyphs of the catalog that were never reconciled or were reconciled more
\* than two hours ago
Due == {g \in DOMAIN glyphs : glyphs[g].exists /\ SweepStale(glyphs[g])}

\* C18 as stated: a run of the sweep with batch size B takes its candidates from exactly
\* the glyphs that are due, takes min(B, number due) of them to reconcile, sets
\* lastCountSync on each of these that it reconciles (all of them unless a store
\* call raises), and writes no other glyph
C18_SweepCandidates ==
    [][\A w \in Workers :
          /\ (pc[w] = "idle" /\ pc'[w] = "sw_views")
             => /\ Range(local'[w].glyph_ids) \subseteq Due
                /\ Len(local'[w].glyph_ids) = Min(local'[w].batch_size, Cardinality(Due))
          /\ (\E b \in SweepSizes : sync_random_glyphs(w, b, FALSE) /\ pc'[w] = "idle")
             => Due = {}
          /\ SweepDone(w)
             => \A g \in DOMAIN glyphs :
                   IF Reconciled(w, g)
                   THEN g \in Due /\ glyphs'[g].lastCountSync = now /\ Consistent(g)'
                   ELSE glyphs'[g] = glyphs[g]]_vars

\* the glyphs that are due among the first 2 * b documents of the catalog
DueWithin(b) == Due \cap {GlyphId(i) : i \in 1..(2 * b)}

\* C18: a run of the sweep with batch size B takes its candidates from exactly
\* the glyphs that are due among the first 2 * B documents of the catalog,
\* takes min(B, number of these) of them to reconcile, sets lastCountSync on
\* each of these that it reconciles (all of them unless a store call raises),
\* and writes no other glyph; a run whose stream of the catalog does not raise
\* ends with nothing selected only when none of these documents is due
C18_SweepScanned ==
    [][\A w \in Workers :
          /\ (pc[w] = "idle" /\ pc'[w] = "sw_views")
             => /\ Range(local'[w].glyph_ids) \subseteq DueWithin(local'[w].batch_size)
                /\ Len(local'[w].glyph_ids)
                      = Min(local'[w].batch_size, Cardinality(DueWithin(local'[w].batch_size)))
          /\ \A b \in SweepSizes :
                (sync_random_glyphs(w, b, FALSE) /\ pc'[w] = "idle") => DueWithin(b) = {}
          /\ SweepDone(w)
             => \A g \in DOMAIN glyphs :
                   IF Reconciled(w, g)
                   THEN /\ g \in DueWithin(local[w].batch_size)
                        /\ glyphs'[g].lastCountSync = now /\ Consistent(g)'
                   ELSE glyphs'[g] = glyphs[g]]_vars

\* a run has reconciled the two glyphs that were due within its scan, and the
\* glyph behind the scan is still due
C18_Witness ==
    /\ log # <<>> /\ Last(log).op = "sync_random_glyphs" /\ Last(log).syncedCount = 2
    /\ GlyphId(2 * SweepBatchSize + 1) \in Due
    /\ \A i \in 1..2 : glyphs[GlyphId(i)].lastCountSync = now /\ Consistent(GlyphId(i))

SweepPcs == {"sw_views", "sw_likes", "sw_downloads", "sw_commit"}

\* C15: at most one loop thread is alive and at most one sweep run executes at
\* any time, whatever the order and overlap of the calls of start() and stop();
\* a call of start() that finds the service running creates no thread
C15_OneLoop ==
    /\ [](Cardinality(Alive) <= 1)
    /\ [](Cardinality({t \in Threads : pc[t] \in SweepPcs}) <= 1)
    /\ [][\A w \in Workers :
             (pc[w] = "idle" /\ running /\ pc'[w] # "sp_join") => pc'[w] = "idle"]_vars

\* C16: the flag goes from stopped to running only in start() and from running
\* to stopped only in stop(); while the flag is down and no call of start() is
\* under way no sweep run begins; and when the flag stays down every loop
\* thread ends
C16_StopStops ==
    /\ [][/\ (~running /\ running') => \E w \in Workers : pc[w] = "st_set"
         /\ (running /\ ~running') => \E w \in Workers : pc[w] = "idle" /\ pc'[w] = "sp_join"]_vars
    /\ [][\A t \in Threads :
             (pc[t] = "lp_call" /\ pc'[t] # "lp_call")
             => (running \/ \E w \in Workers : pc[w] \in StartPcs)]_vars
    /\ (<>[](~running) => <>[](Alive = {}))

\* C17: a failed sweep run does not end the loop: when the flag stays up from
\* some time on, sweep runs are started again and again
C17_LoopSurvives ==
    <>[]running => []<><<\E t \in Threads : RunStarts(t)>>_vars

\* the flag has been up since the one start() that created a Thread, the loop
\* has slept twice, so that it has called the sweep after its first sleep, the
\* glyph is still never reconciled, so that this run failed, and the loop is
\* inside its next run
C17_Witness ==
    /\ running /\ thread = 1 /\ \A w \in Workers : pc[w] = "idle"
    /\ now >= 2 * 3600
    /\ ~Consistent(Hot) /\ glyphs[Hot].lastCountSync = NoSync
    /\ \E t \in Threads : pc[t] \in SweepPcs /\ Alive = {t}

\* the records of views, likes and downloads that name glyph g
RecordsOf(g) ==
    {d \in glyphViews : d.glyphId = g} \cup {d \in likes : d.glyphId = g}
        \cup {d \in glyphDownloads : d.glyphId = g}

\* C21: when delete_glyph, admin_delete_glyph or delete_user_data has deleted a
\* glyph and answered with success, no view, like or download record of the
\* glyph is left, whatever record_view, record_download and toggle_like calls
\* ran beside it
C21_CascadingDelete ==
    [][\A w \in Workers : \A g \in Glyphs :
          /\ ((\/ delete_glyph_downloads(w) \/ delete_glyph_downloads_delete(w)
                \/ admin_delete_glyph_likes(w) \/ admin_delete_glyph_likes_delete(w))
               /\ pc'[w] = "idle" /\ g = local[w].g)
             => (~glyphs'[g].exists /\ RecordsOf(g)' = {})
          /\ (delete_user_data_commit(w, FALSE)
               /\ \E i \in 1..Len(local[w].glyph_ids) : local[w].glyph_ids[i] = g)
             => (~glyphs'[g].exists /\ RecordsOf(g)' = {})]_vars

\* C22: a write of the write path that commits between the counting and the
\* corrective write of a reconcile of the same glyph is not lost: when the
\* writer and the reconciler have both returned, the counters of the
\* reconciled glyph equal the numbers of its records
C22_NoLostIncrement ==
    ((\A w \in Workers : pc[w] = "idle") /\ glyphs[Hot].lastCountSync # NoSync)
    => Consistent(Hot)

CheckedBefore(h, g) ==
    /\ glyphs[g].lastCountSync # NoSync
    /\ glyphs[h].lastCountSync = NoSync \/ glyphs[h].lastCountSync < glyphs[g].lastCountSync

\* C24: an admin sync in batch mode selects min(batchSize, 500) glyphs of the
\* catalog (all of it when it is smaller), and no glyph it leaves out was
\* checked less recently than a glyph it selects
C24_LeastRecentlyChecked ==
    [][(pc[1] = "sg_select" /\ pc'[1] = "sg_views" /\ ~local[1].sync_all) =>
         LET selected == {local'[1].glyph_ids[i] : i \in 1..Len(local'[1].glyph_ids)}
         IN /\ Cardinality(selected)
                  = Min(Min(local[1].requested, MaxBatchSize), Len(StreamGlyphs))
            /\ \A g \in selected, h \in {x \in DOMAIN glyphs : glyphs[x].exists} \ selected :
                  ~CheckedBefore(h, g)]_vars

\* C25: a store read that fails for one glyph of an admin sync or of a sweep run
\* is confined to that glyph. When an admin sync answers 200, every glyph it
\* checked that its errors do not name has counters equal to its records; when
\* the commit of a sweep run succeeds, every glyph it selected that did not
\* fail is reconciled and stamped; a sweep run ends without a commit only when
\* every glyph it selected failed.
C25_ReadFailureConfined ==
    [][/\ (pc[1] \in {"sg_views", "sg_likes", "sg_downloads", "sg_doc", "sg_commit"}
           /\ pc'[1] = "idle" /\ Last(log').status = 200) =>
              \A g \in Range(local[1].glyph_ids) \ Range(Last(log').errors) : Consistent(g)'
       /\ (pc[1] = "sw_commit" /\ pc'[1] = "idle"
           /\ Last(log').syncedCount = local[1].synced_count) =>
              \A g \in Range(local[1].glyph_ids) \ Range(local[1].errors) :
                  Consistent(g)' /\ glyphs'[g].lastCountSync = now
       /\ (pc[1] \in {"sw_views", "sw_likes", "sw_downloads"} /\ pc'[1] = "idle") =>
              Len(local[1].errors) + 1 = Len(local[1].glyph_ids)]_vars

\* an admin sync over the catalog has answered with the first glyph among its
\* errors and has corrected and stamped the last glyph
C25_Witness ==
    /\ pc[1] = "idle" /\ log # <<>>
    /\ Last(log).op = "sync_glyph_counts" /\ Last(log).status = 200
    /\ Last(log).errors = <<GlyphId(1)>>
    /\ Last(log).syncedCount >= 1
    /\ glyphs[GlyphId(MaxSampleErrors)].views = 1
    /\ glyphs[GlyphId(MaxSampleErrors)].lastCountSync = now
    /\ ~Consistent(GlyphId(1))

\* C26: starting from a glyph whose counters equal its record counts, after
\* every call of a sequence of record_view, record_download and toggle_like
\* calls that do not overlap, with no reconcile and no delete, each counter of
\* every glyph still equals the number of its records
C26_WritersKeepConsistent ==
    (pc[1] = "idle") => \A g \in Glyphs : glyphs[g].exists => Consistent(g)

\* the second user has just taken back a like, after both users liked the glyph,
\* both addresses viewed it and one downloaded it
C26_Witness ==
    /\ pc[1] = "idle" /\ log # <<>>
    /\ Last(log).op = "toggle_like" /\ Last(log).status = 200 /\ ~Last(log).liked
    /\ Last(log).actor = User(2)
    /\ glyphs[Hot].likes = 1 /\ DocExists(likes, DocId(Hot, User(1)))
    /\ glyphs[Hot].views = NumIPs
    /\ glyphs[Hot].downloads = 1

\* the tags of the documented enumeration
SyncTypes ==
    {"auto_detail_page", "auto_detail_page_no_change", "admin_full", "admin_batch",
     "auto_hourly"}

\* C27: the syncType a reconcile stores on a glyph is one of the five documented
\* tags and names its trigger: get_glyph stores one of the two detail-page
\* tags, the sweep stores auto_hourly, and sync_glyph_counts stores the tag its
\* report carries in syncType (admin_full for syncAll, admin_batch otherwise)
C27_SyncTypeNamesTrigger ==
    [][\A g \in Glyphs :
          glyphs'[g] # glyphs[g] =>
             /\ glyphs'[g].syncType \in SyncTypes
             /\ pc[1] = "gg_update" => glyphs'[g].syncType \in LazyTags
             /\ pc[1] = "sw_commit" => glyphs'[g].syncType = "auto_hourly"
             /\ pc[1] = "sg_commit" =>
                   glyphs'[g].syncType = SyncResp(200, local[1]).syncType]_vars

\* the five maintained fields of a glyph document
Maintained(doc) == [f \in CounterFields |-> doc[f]]

\* C28 as stated: views, likes, downloads, lastCountSync and syncType of a glyph
\* that exists and goes on existing change only in the commit of a write-path
\* handler or of one of the three reconcile triggers; update_glyph leaves all
\* five as they were whatever the request body holds, and upload_glyph creates
\* a glyph with views, likes and downloads 0
C28_OnlyWritersAndReconcilers ==
    [][\A g \in Glyphs :
          /\ (glyphs[g].exists /\ glyphs'[g].exists
               /\ Maintained(glyphs'[g]) # Maintained(glyphs[g])) =>
                pc[1] \in {"rv_commit", "rd_commit", "tl_commit", "gg_update",
                           "sg_commit", "sw_commit"}
          /\ pc[1] = "ug_update" => Maintained(glyphs'[g]) = Maintained(glyphs[g])
          /\ (~glyphs[g].exists /\ glyphs'[g].exists) =>
                glyphs'[g].views = 0 /\ glyphs'[g].likes = 0 /\ glyphs'[g].downloads = 0]_vars

\* C28: views, likes, downloads, lastCountSync and syncType of a glyph that
\* exists and goes on existing change only in the commit of a write-path
\* handler, of one of the three reconcile triggers or of the migration script,
\* which leaves syncType as it is; update_glyph leaves all five as they were
\* whatever the request body holds, and upload_glyph creates a glyph with
\* views, likes and downloads 0
C28_OnlyWritersReconcilersMigration ==
    [][\A g \in Glyphs :
          /\ (glyphs[g].exists /\ glyphs'[g].exists
               /\ Maintained(glyphs'[g]) # Maintained(glyphs[g])) =>
                /\ pc[1] \in {"rv_commit", "rd_commit", "tl_commit", "gg_update",
                              "sg_commit", "sw_commit", "mg_commit"}
                /\ pc[1] = "mg_commit" => glyphs'[g].syncType = glyphs[g].syncType
          /\ pc[1] = "ug_update" => Maintained(glyphs'[g]) = Maintained(glyphs[g])
          /\ (~glyphs[g].exists /\ glyphs'[g].exists) =>
                glyphs'[g].views = 0 /\ glyphs'[g].likes = 0 /\ glyphs'[g].downloads = 0]_vars

\* update_glyph has changed the title of a glyph that has a view, a like and a
\* lazy reconcile behind it, and a second glyph has been uploaded and then
\* stamped by the migration script
C28_Witness ==
    /\ pc[1] = "idle"
    /\ glyphs[Hot].title = "edited"
    /\ glyphs[Hot].views = 1 /\ glyphs[Hot].likes = 1
    /\ glyphs[Hot].lastCountSync # NoSync /\ glyphs[Hot].syncType \in LazyTags
    /\ glyphs[GlyphId(2)].exists /\ glyphs[GlyphId(2)].views = 0
    /\ glyphs[GlyphId(2)].lastCountSync # NoSync /\ glyphs[GlyphId(2)].syncType = ""

\* the calls before call i of the log that removed key: a delete of it or a
\* clear_pattern whose pattern it matches
RemovalsUpTo(i, key) ==
    {j \in 1..(i - 1) : \/ log[j].op = "cache_delete" /\ log[j].key = key
                        \/ log[j].op = "clear_pattern" /\ Matches(log[j].key.prefix, key)}

\* C29: with threads calling get, set, delete and clear_pattern at the same
\* time, whenever the lock is free the value map and the timestamp map have the
\* same keys, and a get answers no value for a key after a delete or a matching
\* clear_pattern of it has returned unless a set of the key returned since
C29_CacheCallsAtomic ==
    /\ cache_lock = 0 => DOMAIN cache = DOMAIN cache_timestamps
    /\ \A i \in 1..Len(log) :
          (log[i].op = "cache_get" /\ log[i].value # None) =>
             \A j \in RemovalsUpTo(i, log[i].key) :
                \E k \in (j + 1)..(i - 1) :
                   log[k].op = "cache_set" /\ log[k].key = log[i].key

\* a set, a delete and a get of the same key have returned in this order, from
\* threads that ran side by side, and the get answered None
C29_Witness ==
    /\ Len(log) = 3 /\ cache_lock = 0
    /\ log[1].op = "cache_set" /\ log[2].op = "cache_delete" /\ log[3].op = "cache_get"
    /\ \A i \in 1..3 : log[i].key = CacheKey("popular_glyphs_", "20")
    /\ log[3].value = None
    /\ DOMAIN cache = {} /\ DOMAIN cache_timestamps = {}

\* C30: the entries that get_glyph_counts_batch puts into the cache are counts
\* read from the glyph's document: after its fetch every 'counts_<id>' entry of
\* an id it fetched belongs to an existing glyph and holds the counters of its
\* document, so a fetch that failed or found no document leaves no entry
C30_CachesOnlyReadCounts ==
    [][pc[1] = "oc_set" =>
         \A g \in Glyphs :
            (g = local[1].uncached_ids[local[1].k]
              /\ CacheKey("counts_", g) \in DOMAIN cache') =>
               /\ glyphs[g].exists
               /\ cache'[CacheKey("counts_", g)] = DocCounts(glyphs[g])]_vars


====
